---- MODULE Spec2Model ----
(***************************************************************************)
(* A model of the exoclaw gateway: the token meter (agent/metering.rs),    *)
(* the tool-use orchestrator (agent/mod.rs), the chat.send pipeline        *)
(* (gateway/protocol.rs) and the websocket / webhook transports            *)
(* (gateway/server.rs).                                                    *)
(*                                                                         *)
(* Specifications:                                                         *)
(*   SpecMeter  the TokenCounter driven by arbitrary check_budget and      *)
(*              record_usage calls under a clock that crosses day and      *)
(*              month boundaries.                                          *)
(*   Spec       the gateway: chat.send and webhook requests in flight,     *)
(*              their runner and relay tasks, channels, session locks and  *)
(*              the shared counter, in one of several environments.        *)
(*   SpecStream one chat.send with long provider turns, under weak         *)
(*              fairness of every task.                                    *)
(***************************************************************************)
EXTENDS Integers, Sequences, FiniteSets, TLC

(***************************************************************************)
(* Fixed-width unsigned integers.  TLC's integers are 32-bit signed, so a  *)
(* u32 or u64 of the program is a little-endian sequence of 16-bit limbs   *)
(* (2 limbs for u32, 4 for u64); the arithmetic below is exact at the      *)
(* program's widths.                                                       *)
(***************************************************************************)
LimbBase == 256 * 256

RECURSIVE Carry(_, _, _)
\* The carry out of limb k when adding a and b.
Carry(a, b, k) ==
    IF k = 0 THEN 0 ELSE (a[k] + b[k] + Carry(a, b, k - 1)) \div LimbBase

\* a + b truncated to the width of a (what a release build computes).
WrappingAdd(a, b) ==
    [k \in 1..Len(a) |-> (a[k] + b[k] + Carry(a, b, k - 1)) % LimbBase]

\* a + b does not fit the width of a (where a debug build panics).
AddOverflows(a, b) == Carry(a, b, Len(a)) = 1

RECURSIVE LtFrom(_, _, _)
LtFrom(a, b, k) ==
    IF k = 0 THEN FALSE
    ELSE IF a[k] # b[k] THEN a[k] < b[k]
    ELSE LtFrom(a, b, k - 1)

\* a < b and a > b on equal-width values.
Lt(a, b) == LtFrom(a, b, Len(a))
Gt(a, b) == Lt(b, a)
Le(a, b) == ~Lt(b, a)

\* The u32 / u64 holding the small number n.
U32(n) == <<n % LimbBase, n \div LimbBase>>
U64(n) == <<n % LimbBase, n \div LimbBase, 0, 0>>
\* `x as u64` for a u32 x.
AsU64(x) == x \o <<0, 0>>

U32Max == <<LimbBase - 1, LimbBase - 1>>

(***************************************************************************)
(* Bounds of the model.                                                    *)
(***************************************************************************)
\* Number of TokenCounter calls explored by SpecMeter.
MaxCalls == 3

\* Option<u64>::None for a limit; Some(x) is x itself.
NoLimit == <<>>
Sessions == {"s1", "s2"}

\* The clock's successive readings <<month, day>>: a day boundary, then a
\* month boundary.
Times == << <<0, 1>>, <<0, 2>>, <<1, 1>> >>

\* u32 token counts <<input, output>> reported by a provider (any u32 is
\* possible: the adapters store `as u32`).
UsagePairs == { <<U32(1), U32(0)>>, <<U32(1), U32(1)>>, <<U32Max, U32(1)>> }
\* u64 estimates handed to check_budget.
EstVals == {U64(1), U64(2)}
\* BudgetConfig: each limit an Option<u64>.
Budget(s, d, m) == [session |-> s, daily |-> d, monthly |-> m]
Budgets == { Budget(NoLimit, NoLimit, NoLimit),
             Budget(U64(2), U64(3), U64(3)),
             Budget(NoLimit, U64(2), U64(2)),
             Budget(NoLimit, NoLimit, U64(2)) }

VARIABLES
    counter,          \* the global TokenCounter
    now,              \* Utc::now(): an index into Times
    overflow_checks,  \* build profile: TRUE = debug (overflow panics), FALSE = release (wraps)
    meter_last,       \* the last TokenCounter call: arguments, counter before, result
    ncalls,           \* number of TokenCounter calls made
    env,              \* what the environment may do in this run (fixed by Init)
    conn,             \* per request: the transport-side task (handle_connection / webhook_handler)
    runner,           \* per request: the spawned agent task (run_with_tools and its wrapper)
    relay,            \* per chat.send: the spawned meter relay task
    chan,             \* per request: the event channels and whether their receivers are alive
    store,            \* SessionStore: session key -> session, or NoSession
    session_locks,    \* per session key: the task holding the session mutex, or Free
    router,           \* SessionRouter: the binding list and the sessions it has seen
    route_last,       \* the last resolve call made on a router by itself: inputs, result
    journal,          \* the calls made so far on a component run by itself, and their results
    memory,           \* MemoryEngine: the episodic window of every session
    hist,             \* per request: what has happened on its behalf (history)
    last_mut          \* the last mutation of a session: by which task, under which lock holder

meter_vars == <<counter, now, overflow_checks, meter_last, ncalls>>
router_vars == <<router, route_last, journal>>
gateway_vars == <<env, conn, runner, relay, chan, store, session_locks, memory, hist, last_mut>>
vars == <<counter, now, overflow_checks, meter_last, ncalls,
          router, route_last, journal,
          env, conn, runner, relay, chan, store, session_locks, memory, hist, last_mut>>

(***************************************************************************)
(* agent/metering.rs                                                       *)
(***************************************************************************)
\* Timestamps are <<month, day>>; the time of day plays no role.
TimeGt(a, b) == a[1] > b[1] \/ (a[1] = b[1] /\ a[2] > b[2])

start_of_day(dt) == dt
start_of_month(dt) == <<dt[1], 1>>

TokenCounter_new(budget, t) ==
    [ session_limit |-> budget.session,
      daily_limit   |-> budget.daily,
      monthly_limit |-> budget.monthly,
      session_usage |-> [s \in {} |-> U64(0)],
      daily_used    |-> U64(0),
      daily_start   |-> start_of_day(t),
      monthly_used  |-> U64(0),
      monthly_start |-> start_of_month(t),
      records       |-> <<>> ]

\* self.session_usage.get(key).copied().unwrap_or(0)
SessionUsed(c, key) ==
    IF key \in DOMAIN c.session_usage THEN c.session_usage[key] ELSE U64(0)

ResetDaily(c, t) ==
    IF TimeGt(start_of_day(t), c.daily_start)
    THEN [c EXCEPT !.daily_used = U64(0), !.daily_start = start_of_day(t)]
    ELSE c

ResetMonthly(c, t) ==
    IF TimeGt(start_of_month(t), c.monthly_start)
    THEN [c EXCEPT !.monthly_used = U64(0), !.monthly_start = start_of_month(t)]
    ELSE c

maybe_reset_periods_DailyOnly(c, t) == ResetDaily(c, t)
maybe_reset_periods_MonthlyOnly(c, t) == ResetMonthly(c, t)
maybe_reset_periods(c, t) == ResetMonthly(ResetDaily(c, t), t)

Ok == [ok |-> TRUE]
BudgetExceeded(scope, used, limit) ==
    [ok |-> FALSE, scope |-> scope, used |-> used, limit |-> limit]

\* A session check that refuses already at used + est = limit.
SessionExceeded_AtLimit(c, key, est) ==
    /\ c.session_limit # NoLimit
    /\ Le(c.session_limit, WrappingAdd(SessionUsed(c, key), est))

\* The three comparisons of check_budget, on the counter after rollover.
\* (u64 `+`: within the model's inputs the sums stay far below 2^64, where
\* debug and release builds agree.)
SessionExceeded(c, key, est) ==
    /\ c.session_limit # NoLimit
    /\ Gt(WrappingAdd(SessionUsed(c, key), est), c.session_limit)
DailyExceeded(c, est) ==
    /\ c.daily_limit # NoLimit
    /\ Gt(WrappingAdd(c.daily_used, est), c.daily_limit)
MonthlyExceeded(c, est) ==
    /\ c.monthly_limit # NoLimit
    /\ Gt(WrappingAdd(c.monthly_used, est), c.monthly_limit)

CheckResult(c, key, est) ==
    IF SessionExceeded(c, key, est)
    THEN BudgetExceeded(<<"session", key>>, SessionUsed(c, key), c.session_limit)
    ELSE IF DailyExceeded(c, est)
    THEN BudgetExceeded(<<"daily">>, c.daily_used, c.daily_limit)
    ELSE IF MonthlyExceeded(c, est)
    THEN BudgetExceeded(<<"monthly">>, c.monthly_used, c.monthly_limit)
    ELSE Ok

\* A check_budget that reserves the estimate when it admits.
check_budget_Reserving(c, key, est, t) ==
    LET r == maybe_reset_periods(c, t)
        res == CheckResult(r, key, est)
    IN  [counter |-> IF res.ok THEN [r EXCEPT !.daily_used = WrappingAdd(r.daily_used, est)]
                     ELSE r,
         result |-> res]

\* check_budget(&mut self, key, est): the counter afterwards and the result.
check_budget(c, key, est, t) ==
    LET r == maybe_reset_periods(c, t)
    IN  [counter |-> r, result |-> CheckResult(r, key, est)]

\* `(input_tokens + output_tokens) as u64`, the sum taken in u32.
UsageTotal(i, o) == AsU64(WrappingAdd(i, o))

\* record_usage panics (debug build) instead of returning.
RecordPanics(i, o, checks) == checks /\ AddOverflows(i, o)

TokenRecord(key, i, o, t) ==
    [timestamp |-> t, session_key |-> key, input_tokens |-> i, output_tokens |-> o]

\* record_usage(&mut self, key, .., i, o) when it returns: the counter afterwards.
record_usage(c, key, i, o, t) ==
    LET total == UsageTotal(i, o)
        c1 == [c EXCEPT !.session_usage =
                 [k \in DOMAIN c.session_usage \cup {key} |->
                    WrappingAdd(SessionUsed(c, k), IF k = key THEN total ELSE U64(0))]]
        c2 == maybe_reset_periods(c1, t)
    IN  [c2 EXCEPT !.daily_used = WrappingAdd(c2.daily_used, total),
                   !.monthly_used = WrappingAdd(c2.monthly_used, total),
                   !.records = Append(c2.records, TokenRecord(key, i, o, t))]

RECURSIVE SumInput(_, _), SumOutput(_, _)
\* sum_records_for_session: the u64 sums of the session's audit records.
SumInput(recs, key) ==
    IF recs = <<>> THEN U64(0)
    ELSE WrappingAdd(SumInput(Tail(recs), key),
                     IF Head(recs).session_key = key
                     THEN AsU64(Head(recs).input_tokens) ELSE U64(0))
SumOutput(recs, key) ==
    IF recs = <<>> THEN U64(0)
    ELSE WrappingAdd(SumOutput(Tail(recs), key),
                     IF Head(recs).session_key = key
                     THEN AsU64(Head(recs).output_tokens) ELSE U64(0))

\* get_usage(&BudgetScope::Session(key))
get_usage_session(c, key) ==
    [ input_tokens  |-> SumInput(c.records, key),
      output_tokens |-> SumOutput(c.records, key),
      total_tokens  |-> SessionUsed(c, key) ]

(***************************************************************************)
(* The gateway: gateway/protocol.rs, gateway/server.rs, agent/mod.rs.      *)
(* A request r is one inbound chat.send frame or one webhook POST; every   *)
(* request has its own transport-side task ("conn"), its own spawned agent *)
(* task ("runner") and, for chat.send, its own meter relay ("relay").      *)
(***************************************************************************)
Reqs == {"r1", "r2"}

MAX_TOOL_ITERATIONS == 10
\* Capacities of the mpsc channels.
CLIENT_CAP == 32
METER_CAP == 32
INNER_CAP == 32
WEBHOOK_CAP == 32

\* Bounds of the concurrent scenario: text deltas and tool_use blocks per
\* provider turn, and the provider turns of one request that ask for tools.
MaxText == 1
MaxTools == 2
MaxToolTurns == 1

\* AgentEvent
Text(it, n) == [kind |-> "text", v |-> <<it, n>>, msg |-> ""]
ToolUse(it, n) == [kind |-> "tool_use", v |-> <<it, n>>, msg |-> ""]
ToolResult(id, is_error) == [kind |-> "tool_result", v |-> id \o <<is_error>>, msg |-> ""]
Usage(i, o) == [kind |-> "usage", v |-> i \o o, msg |-> ""]
Done == [kind |-> "done", v |-> <<>>, msg |-> ""]
Error(m) == [kind |-> "error", v |-> <<>>, msg |-> m]

UsageInput(e) == SubSeq(e.v, 1, 2)
UsageOutput(e) == SubSeq(e.v, 3, 4)

Task(r, role) == <<r, role>>
Free == <<>>
NoSession == <<>>
NoMut == [by |-> Free]

(***************************************************************************)
(* agent/providers.rs: what one call_streaming sends on its tx, and how it *)
(* returns.  A stream is nt text deltas and nk tool_use blocks, closed by  *)
(* Usage and Done; an HTTP non-success is Error then Done; a transport     *)
(* failure returns Err, before any event or in mid-stream.                 *)
(***************************************************************************)
RECURSIVE Texts(_, _)
Texts(it, n) == IF n = 0 THEN <<>> ELSE Append(Texts(it, n - 1), Text(it, n))
RECURSIVE ToolUses(_, _)
ToolUses(it, n) == IF n = 0 THEN <<>> ELSE Append(ToolUses(it, n - 1), ToolUse(it, n))

StreamBody(it, nt, nk) == Texts(it, nt) \o ToolUses(it, nk)

call_streaming(it, e) ==
    LET tools == IF it <= e.tool_turns THEN e.tools ELSE {0}
    IN  { [ok |-> TRUE, events |-> StreamBody(it, nt, nk) \o <<Usage(u[1], u[2]), Done>>] :
            nt \in e.texts, nk \in tools, u \in e.usage }
        \cup { [ok |-> TRUE, events |-> <<Error("status: body"), Done>>] }
        \cup { [ok |-> FALSE, events |-> StreamBody(it, nt, nk)] :
                 nt \in e.texts \cup {0}, nk \in tools }

(***************************************************************************)
(* tokio::sync::mpsc: send on a bounded channel whose receiver may be gone.*)
(***************************************************************************)
\* send(..).await completes: with Err at once when the receiver is dropped,
\* with Ok once there is room.
CanSend(ch, open, cap) == ~open \/ Len(ch) < cap
AfterSend(ch, open, e) == IF open THEN Append(ch, e) ELSE ch

OutCap(r) == IF conn[r].kind = "chat" THEN METER_CAP ELSE WEBHOOK_CAP

(***************************************************************************)
(* router/mod.rs.  A string is the sequence of its characters, an          *)
(* Option<String> is None or Some(s).                                      *)
(***************************************************************************)
None == <<>>
Some(x) == <<x>>
unwrap_or(o, d) == IF o = None THEN d ELSE o[1]

Binding(agent_id, channel, account_id, peer_id, guild_id, team_id) ==
    [agent_id |-> agent_id, channel |-> channel, account_id |-> account_id,
     peer_id |-> peer_id, guild_id |-> guild_id, team_id |-> team_id]

\* SessionRouter::new
SessionRouter_new ==
    [bindings |-> <<>>, sessions |-> [k \in {} |-> 0],
     default_agent |-> <<"d", "e", "f", "a", "u", "l", "t">>]

\* SessionRouter::add_binding
add_binding(rt, b) == [rt EXCEPT !.bindings = Append(@, b)]

\* The closure of each find_map of resolve: does binding b answer request q.
Closure(rule, b, q) ==
    CASE rule = "binding.peer" ->
           b.peer_id # None /\ q.peer # None /\ b.peer_id[1] = q.peer[1]
      [] rule = "binding.guild" ->
           b.guild_id # None /\ q.guild # None /\ b.guild_id[1] = q.guild[1]
      [] rule = "binding.team" ->
           b.team_id # None /\ q.team # None /\ b.team_id[1] = q.team[1]
      [] rule = "binding.account" ->
           b.account_id = Some(q.account) /\ b.peer_id = None /\ b.guild_id = None
      [] rule = "binding.channel" ->
           b.channel = Some(q.channel) /\ b.account_id = None /\ b.peer_id = None

\* self.bindings.iter().find_map(..): the index of the first binding from i
\* on whose closure returns Some, 0 when there is none.
RECURSIVE find_map(_, _, _, _)
find_map(bs, rule, q, i) ==
    IF i > Len(bs) THEN 0
    ELSE IF Closure(rule, bs[i], q) THEN i
    ELSE find_map(bs, rule, q, i + 1)

\* The order of the find_map(..).or_else(..) chain.
RuleChain_GuildFirst == <<"binding.guild", "binding.peer", "binding.team",
                          "binding.account", "binding.channel">>
RuleChain == <<"binding.peer", "binding.guild", "binding.team", "binding.account",
               "binding.channel">>

\* The chain from its k-th link on, closed by unwrap_or((default_agent, "default")).
RECURSIVE or_else(_, _, _)
or_else(rt, q, k) ==
    IF k > Len(RuleChain)
    THEN [agent_id |-> rt.default_agent, matched_by |-> "default"]
    ELSE LET i == find_map(rt.bindings, RuleChain[k], q, 1)
         IN  IF i # 0
             THEN [agent_id |-> rt.bindings[i].agent_id, matched_by |-> RuleChain[k]]
             ELSE or_else(rt, q, k + 1)

\* format!("{agent_id}:{channel}:{account}:{}", peer.unwrap_or("main"))
format_session_key(agent_id, channel, account, peer) ==
    agent_id \o <<":">> \o channel \o <<":">> \o account \o <<":">>
        \o unwrap_or(peer, <<"m", "a", "i", "n">>)

\* self.sessions.entry(key).and_modify(|s| s.message_count += 1).or_insert(..1)
sessions_entry_Forgetting(sessions, key) == [k \in {key} |-> 1]
sessions_entry(sessions, key) ==
    [k \in DOMAIN sessions \cup {key} |->
        IF k # key THEN sessions[k]
        ELSE IF key \in DOMAIN sessions THEN sessions[key] + 1 ELSE 1]

\* SessionRouter::resolve: the router afterwards and the RouteResult.
resolve_Counting(rt, q) ==
    LET m == or_else(rt, q, 1)
        key == format_session_key(m.agent_id, q.channel, q.account, q.peer)
        n == IF key \in DOMAIN rt.sessions THEN rt.sessions[key] ELSE 0
    IN  [router |-> [rt EXCEPT !.sessions = sessions_entry(rt.sessions, key)],
         route |-> [agent_id |-> m.agent_id,
                    session_key |-> IF n = 0 THEN key ELSE key \o <<":">>,
                    matched_by |-> m.matched_by]]
resolve(rt, q) ==
    LET m == or_else(rt, q, 1)
        key == format_session_key(m.agent_id, q.channel, q.account, q.peer)
    IN  [router |-> [rt EXCEPT !.sessions = sessions_entry(rt.sessions, key)],
         route |-> [agent_id |-> m.agent_id, session_key |-> key,
                    matched_by |-> m.matched_by]]

\* SessionRouter::session_count
session_count(rt) == Cardinality(DOMAIN rt.sessions)

\* The chat.send / webhook parameters behind the session labels "s1", "s2":
\* one channel and account, two peers, no guild or team.
ParamsOf(key) ==
    [channel |-> <<"w">>, account |-> <<"a">>,
     peer |-> Some(IF key = "s1" THEN <<"1">> ELSE <<"2">>),
     guild |-> None, team |-> None]

NoRoute == [op |-> "none", n |-> 0, keys |-> {}]

(***************************************************************************)
(* memory/mod.rs, memory/episodic.rs, types.rs                             *)
(***************************************************************************)
\* Message::text(role, text)
Message_text(role, text) == [role |-> role, content |-> text]

\* params.content of request r: one chunk of text that names the request.
UserContent(r) == << <<0, IF r = "r1" THEN 1 ELSE 2>> >>

\* Strings are sequences of chars; a char is named by itself or, outside
\* ASCII, by its code point.
Subjects == {<<"u", "s", "e", "r">>, <<"d", "o", "g">>}
Predicates == {<<"n", "a", "m", "e">>, <<"l", "o", "c">>}
Objects == {<<"x">>, <<"y">>}

\* char::len_utf8
len_utf8(c) ==
    IF c \in {"U+65E5", "U+672C"} THEN 3 ELSE IF c = "U+00E9" THEN 2 ELSE 1

\* String::len: the number of bytes of the UTF-8 encoding.
RECURSIVE str_len(_)
str_len(w) == IF w = <<>> THEN 0 ELSE len_utf8(Head(w)) + str_len(Tail(w))

\* char::is_alphanumeric
is_alphanumeric(c) == c \notin {" ", "?", "!", ":", "'", "\n"}

\* str::to_lowercase
to_lowercase(w) == [i \in 1..Len(w) |-> IF w[i] = "D" THEN "d" ELSE w[i]]

\* str::contains
contains(hay, needle) ==
    \E i \in 1..(Len(hay) - Len(needle) + 1) :
        SubSeq(hay, i, i + Len(needle) - 1) = needle

\* str::split on the chars of seps from position start on, empty pieces
\* dropped (split_whitespace): the stretches between consecutive separators.
split_from(q, seps, start) ==
    LET cuts == {i \in start..Len(q) : q[i] \in seps} \cup {start - 1, Len(q) + 1}
        nth(k) == CHOOSE x \in cuts : Cardinality({y \in cuts : y < x}) = k - 1
        pieces == [k \in 1..(Cardinality(cuts) - 1) |->
                      SubSeq(q, nth(k) + 1, nth(k + 1) - 1)]
    IN  SelectSeq(pieces, LAMBDA piece : piece # <<>>)
split_whitespace(q) == split_from(q, {" ", "\n"}, 1)

\* SemanticMemory::new: no entities; a subject without an entry is the empty Vec.
SemanticMemory_new(enabled) ==
    [enabled |-> enabled, entities |-> [s \in Subjects |-> <<>>]]

\* make_entity: id is a fresh uuid; the entity starts active.
make_entity(id, subject, predicate, object, learned_at) ==
    [id |-> id, subject |-> subject, predicate |-> predicate, object |-> object,
     learned_at |-> learned_at, superseded_at |-> <<>>, superseded_by |-> <<>>]

\* Iterator::find / position: the first of the positions I, 0 if there is none.
position(I) == IF I = {} THEN 0 ELSE CHOOSE i \in I : \A j \in I : i <= j

\* Positions in entities of the active entities with the predicate.
ActiveAt(entities, predicate) ==
    {i \in 1..Len(entities) :
        entities[i].predicate = predicate /\ entities[i].superseded_at = <<>>}

\* Positions in entities of the entities with the id.
IdAt(entities, id) == {i \in 1..Len(entities) : entities[i].id = id}

\* SemanticMemory::find_active: id of the first active entity of the subject
\* with the predicate.
find_active(sem, subject, predicate) ==
    LET entities == sem.entities[subject]
        i == position(ActiveAt(entities, predicate))
    IN  IF i = 0 THEN <<>> ELSE <<entities[i].id>>

\* The subjects whose Vec holds an entity with the id.
Holders(sem, id) ==
    {s \in Subjects : position(IdAt(sem.entities[s], id)) # 0}

\* SemanticMemory::supersede: the first entity with old_id met while walking
\* the map is marked; the walk meets subject `first` before any other holder.
supersede_Unlinked(sem, old_id, new_id, t, first) ==
    IF first \notin Holders(sem, old_id) THEN sem
    ELSE LET i == position(IdAt(sem.entities[first], old_id))
         IN  [sem EXCEPT !.entities[first][i].superseded_at = <<t>>]
supersede(sem, old_id, new_id, t, first) ==
    IF first \notin Holders(sem, old_id) THEN sem
    ELSE LET i == position(IdAt(sem.entities[first], old_id))
         IN  [sem EXCEPT !.entities[first][i].superseded_at = <<t>>,
                         !.entities[first][i].superseded_by = <<new_id>>]

\* SemanticMemory::store
semantic_store(sem, entity, t, first) ==
    IF ~sem.enabled THEN sem
    ELSE LET existing_id == find_active(sem, entity.subject, entity.predicate)
             sem1 == IF existing_id # <<>>
                     THEN supersede(sem, existing_id[1], entity.id, t, first)
                     ELSE sem
         IN  [sem1 EXCEPT !.entities[entity.subject] = Append(@, entity)]

\* SemanticMemory::query: the active entities of the subject with the predicate.
semantic_query(sem, subject, predicate) ==
    SelectSeq(sem.entities[subject],
              LAMBDA e : e.predicate = predicate /\ e.superseded_at = <<>>)

\* SemanticMemory::count: all entities, superseded ones included.
RECURSIVE SumLen(_, _)
SumLen(entities, S) ==
    IF S = {} THEN 0
    ELSE LET s == CHOOSE x \in S : TRUE
         IN  Len(entities[s]) + SumLen(entities, S \ {s})
semantic_count(sem) == SumLen(sem.entities, Subjects)

\* The ids held by the store.
StoredIds(sem) ==
    UNION {{sem.entities[s][i].id : i \in 1..Len(sem.entities[s])} : s \in Subjects}

\* query_relevant's closure: keyword kw hits the entity when it contains, or
\* is contained in, the lowercased subject, predicate or object.
keyword_hits(e, kw) ==
    LET kw_lower == to_lowercase(kw)
        subj == to_lowercase(e.subject)
        pred == to_lowercase(e.predicate)
        obj == to_lowercase(e.object)
    IN  \/ contains(subj, kw_lower) \/ contains(kw_lower, subj)
        \/ contains(pred, kw_lower) \/ contains(kw_lower, pred)
        \/ contains(obj, kw_lower) \/ contains(kw_lower, obj)

\* query_relevant's score: the number of keywords that hit the entity.
score(e, keywords) ==
    Cardinality({i \in 1..Len(keywords) : keyword_hits(e, keywords[i])})

\* self.entities.values(), the Vecs laid end to end in the order `walk`
\* visits the subjects.
RECURSIVE values(_, _)
values(sem, walk) ==
    IF walk = <<>> THEN <<>> ELSE sem.entities[Head(walk)] \o values(sem, Tail(walk))

\* results.sort_by(|a, b| b.1.cmp(&a.1)): stable, highest score first.
RECURSIVE sort_by_score(_, _, _)
sort_by_score(results, keywords, sc) ==
    IF sc = 0 THEN <<>>
    ELSE SelectSeq(results, LAMBDA e : score(e, keywords) = sc)
           \o sort_by_score(results, keywords, sc - 1)

\* SemanticMemory::query_relevant
query_relevant(sem, keywords, walk) ==
    sort_by_score(SelectSeq(values(sem, walk),
                            LAMBDA e : e.superseded_at = <<>> /\ score(e, keywords) > 0),
                  keywords, Len(keywords))

\* The orders in which a HashMap may yield the subjects.
Walks ==
    {w \in [1..Cardinality(Subjects) -> Subjects] :
        \A i, j \in DOMAIN w : i # j => w[i] # w[j]}

SoulAgents == {<<"d", "e", "f", "a", "u", "l", "t">>, <<"c">>}

\* SoulLoader::new
SoulLoader_new == [a \in SoulAgents |-> <<>>]

\* SoulLoader::load: the file's content, cached under the agent.
soul_load(souls, agent_id, content) == [souls EXCEPT ![agent_id] = <<content>>]

\* SoulLoader::get: a cached soul is read again when its file's mtime has
\* advanced; changed = <<content>> then, <<>> when the file is as it was or
\* cannot be read.
soul_get(souls, agent_id, changed) ==
    IF souls[agent_id] # <<>> /\ changed # <<>>
    THEN soul_load(souls, agent_id, changed[1])
    ELSE souls

\* MemoryEngine::new(episodic_window, semantic_enabled)
MemoryEngine_new(w, semantic_enabled) ==
    [window_turns |-> w, episodic |-> [k \in Sessions |-> <<>>],
     semantic |-> SemanticMemory_new(semantic_enabled),
     soul |-> SoulLoader_new]

\* EpisodicMemory::append: push, then keep the last window_turns * 2 messages.
episodic_append_KeepOldest(m, key, msg) ==
    LET max_messages == m.window_turns * 2
        messages == Append(m.episodic[key], msg)
    IN  [m EXCEPT !.episodic[key] =
            IF Len(messages) > max_messages
            THEN SubSeq(messages, 1, max_messages)
            ELSE messages]
episodic_append(m, key, msg) ==
    LET max_messages == m.window_turns * 2
        messages == Append(m.episodic[key], msg)
    IN  [m EXCEPT !.episodic[key] =
            IF Len(messages) > max_messages
            THEN SubSeq(messages, Len(messages) - max_messages + 1, Len(messages))
            ELSE messages]

\* EpisodicMemory::all
episodic_all(m, key) == m.episodic[key]

FACTS_LIMIT == 10
KnownFacts == <<"K", "n", "o", "w", "n", " ", "f", "a", "c", "t", "s", ":", "\n">>

\* The query's words, alphanumeric chars only, lowercased, those of len() > 2.
cleaned(query) ==
    LET words == split_whitespace(query)
        strip(w) == to_lowercase(SelectSeq(w, is_alphanumeric))
    IN  SelectSeq([i \in 1..Len(words) |-> strip(words[i])], LAMBDA w : str_len(w) > 2)

\* format!("{}'s {}: {}", e.subject, e.predicate, e.object)
format_fact(e) == e.subject \o <<"'", "s", " ">> \o e.predicate \o <<":", " ">> \o e.object

\* facts.join("\n")
RECURSIVE join(_, _)
join(lines, sep) ==
    IF lines = <<>> THEN <<>>
    ELSE IF Len(lines) = 1 THEN lines[1]
    ELSE lines[1] \o sep \o join(Tail(lines), sep)

\* Iterator::take
take(q, n) == SubSeq(q, 1, IF Len(q) < n THEN Len(q) ELSE n)

\* MemoryEngine::assemble_context: soul, known facts, episodic window.
\* Returns the engine (soul.get may reload) and the context.
assemble_context(m, session_key, agent_id, query, walk, changed) ==
    LET souls == soul_get(m.soul, agent_id, changed)
        soul_part == IF souls[agent_id] # <<>>
                     THEN <<Message_text("system", souls[agent_id][1])>>
                     ELSE <<>>
        keywords == cleaned(query)
        relevant == IF m.semantic.enabled /\ keywords # <<>>
                    THEN query_relevant(m.semantic, keywords, walk)
                    ELSE <<>>
        facts == take(relevant, FACTS_LIMIT)
        facts_part == IF relevant # <<>>
                      THEN <<Message_text("system",
                               KnownFacts \o join([i \in 1..Len(facts) |-> format_fact(facts[i])],
                                                  <<"\n">>))>>
                      ELSE <<>>
    IN  [memory |-> [m EXCEPT !.soul = souls],
         context |-> soul_part \o facts_part \o episodic_all(m, session_key)]

\* The chars of params.content of request r, the query of its context.
UserQuery(r) == IF r = "r1" THEN <<"o", "n", "e">> ELSE <<"t", "w", "o">>

\* The context the gateway assembles for request r: the configured agent has
\* no soul_path and the semantic store is empty.
GatewayContext(m, key, r) ==
    assemble_context(m, key, <<"d", "e", "f", "a", "u", "l", "t">>, UserQuery(r),
                     CHOOSE w \in Walks : TRUE, <<>>).context

\* MemoryEngine::process_response: both messages go to the episodic window
\* (the message contents of the gateway scenarios hold none of the phrases
\* extract_entities recognises, so no entity is stored).
process_response_AssistantOnly(m, key, user_message, assistant_message) ==
    episodic_append(m, key, assistant_message)
process_response(m, key, user_message, assistant_message) ==
    episodic_append(episodic_append(m, key, user_message), key, assistant_message)

(***************************************************************************)
(* store/mod.rs                                                            *)
(***************************************************************************)
get_or_create(st, key) ==
    IF st[key] = NoSession
    THEN [st EXCEPT ![key] = [messages |-> <<>>, message_count |-> 0]]
    ELSE st

\* session.messages.push(..)
PushMessage(st, key, m) ==
    IF st[key] = NoSession THEN st
    ELSE [st EXCEPT ![key].messages = Append(@, m)]
\* session.message_count += 1
BumpCount(st, key) ==
    IF st[key] = NoSession THEN st
    ELSE [st EXCEPT ![key].message_count = @ + 1]

Mutation(r, role, key) ==
    [by |-> Task(r, role), key |-> key, holder |-> session_locks[key]]

(***************************************************************************)
(* gateway/auth.rs, gateway/protocol.rs: frames and their JSON             *)
(***************************************************************************)
\* serde_json::Value, and the outcome of parsing text that is not JSON.
JsonMalformed == [json |-> "malformed"]
JsonNull == [json |-> "null"]
JsonString(chars) == [json |-> "string", s |-> chars]
JsonNumber(n) == [json |-> "number", n |-> n]
JsonObject(fields) == [json |-> "object", fields |-> fields]

\* Value::get(key): None on a missing key and on anything but an object.
json_get(v, key) ==
    IF v.json = "object" /\ key \in DOMAIN v.fields THEN <<v.fields[key]>> ELSE <<>>

\* Value::as_str
as_str(v) == IF v.json = "string" THEN <<v.s>> ELSE <<>>

\* WebSocket messages; a text message is described by what its text parses to.
TextFrame(body) == [type |-> "text", body |-> body]
BinaryFrame == [type |-> "binary"]
PingFrame == [type |-> "ping"]
CloseFrame == [type |-> "close"]
\* socket.recv() yields None: the peer is gone.
NoFrame == [type |-> "none"]

\* auth::constant_time_eq
constant_time_eq(a, b) ==
    IF Len(a) # Len(b) THEN FALSE ELSE \A i \in 1..Len(a) : a[i] = b[i]

\* auth::verify_connect
verify_connect_Prefix(msg, expected) ==
    IF expected = <<>> THEN TRUE
    ELSE LET v == IF msg.json = "malformed" THEN <<>> ELSE json_get(msg, "token")
             token == IF v = <<>> THEN <<>> ELSE as_str(v[1])
         IN  IF token = <<>> THEN FALSE
             ELSE \A i \in 1..Len(token[1]) :
                     i <= Len(expected[1]) /\ token[1][i] = expected[1][i]
verify_connect(msg, expected) ==
    IF expected = <<>> THEN TRUE
    ELSE LET v == IF msg.json = "malformed" THEN <<>> ELSE json_get(msg, "token")
             token == IF v = <<>> THEN <<>> ELSE as_str(v[1])
         IN  IF token = <<>> THEN FALSE
             ELSE constant_time_eq(token[1], expected[1])

\* The frames handle_connection writes during the handshake.
Hello == [ok |-> TRUE, version |-> "0.1.0"]
AuthFailed == [error |-> "auth_failed", code |-> 4001]

\* RpcId
RpcId_String(value) == [variant |-> "String", value |-> value]
RpcId_Number(value) == [variant |-> "Number", value |-> value]

\* Number::to_string for an integer: its decimal digits.
RECURSIVE digits(_)
digits(n) ==
    LET d == <<"0", "1", "2", "3", "4", "5", "6", "7", "8", "9">>[(n % 10) + 1]
    IN  IF n < 10 THEN <<d>> ELSE Append(digits(n \div 10), d)
Number_to_string(n) == IF n < 0 THEN <<"-">> \o digits(0 - n) ELSE digits(n)

\* RpcId::into_string
into_string_Raw(id) == IF id.variant = "String" THEN id.value ELSE <<"0">>
into_string(id) ==
    IF id.variant = "String" THEN id.value ELSE Number_to_string(id.value)

\* serde_json::from_str::<RpcRequest>: id is a string or a number, method a
\* string, params whatever is there.
parse_request(msg) ==
    LET id == IF msg.json = "malformed" THEN <<>> ELSE json_get(msg, "id")
        method == IF msg.json = "malformed" THEN <<>> ELSE json_get(msg, "method")
        params == IF msg.json = "malformed" THEN <<>> ELSE json_get(msg, "params")
    IN  IF id = <<>> \/ method = <<>> THEN [ok |-> FALSE]
        ELSE IF id[1].json \notin {"string", "number"} \/ method[1].json # "string"
        THEN [ok |-> FALSE]
        ELSE [ok |-> TRUE,
              id |-> IF id[1].json = "string" THEN RpcId_String(id[1].s)
                     ELSE RpcId_Number(id[1].n),
              method |-> method[1].s,
              params |-> IF params = <<>> THEN JsonNull ELSE params[1]]

\* serde_json::from_value::<ChatSendParams>: channel, account and content
\* must be strings.
params_ok(params) ==
    \A key \in {"channel", "account", "content"} :
        /\ json_get(params, key) # <<>>
        /\ json_get(params, key)[1].json = "string"

\* RpcResponse with a result, and with an error.
ResultResponse(id, result) == [id |-> id, result |-> result]
ErrorResponse(id, error) == [id |-> id, error |-> error]

\* handle_rpc up to the call of handle_chat_send: the response, or the
\* request id with which handle_chat_send is entered.
handle_rpc(msg, plugins, sessions) ==
    LET req == parse_request(msg)
    IN  IF ~req.ok
        THEN [response |-> <<ErrorResponse(<<"0">>, [text |-> "parse error: "])>>]
        ELSE LET request_id == into_string(req.id)
             IN  CASE req.method = "ping" ->
                        [response |-> <<ResultResponse(request_id, [pong |-> TRUE])>>]
                   [] req.method = "status" ->
                        [response |-> <<ResultResponse(request_id,
                                          [version |-> "0.1.0", plugins |-> plugins,
                                           sessions |-> sessions])>>]
                   [] req.method = "plugin.list" ->
                        [response |-> <<ResultResponse(request_id, [list |-> plugins])>>]
                   [] req.method = "chat.send" ->
                        IF params_ok(req.params)
                        THEN [response |-> <<>>, request_id |-> request_id]
                        ELSE [response |-> <<ErrorResponse(request_id,
                                               [text |-> "invalid chat.send params: "])>>]
                   [] OTHER ->
                        [response |-> <<ErrorResponse(request_id,
                                          [text |-> "unknown method: ",
                                           method |-> req.method])>>]

\* The id of the chat.send or webhook request r: a string for one, a number
\* for the other.
RpcIdOf(r) == IF r = "r1" THEN RpcId_String(<<"r", "1">>) ELSE RpcId_Number(20)
request_id(r) == into_string(RpcIdOf(r))

(***************************************************************************)
(* Initial state of the gateway (server::run builds AppState).             *)
(***************************************************************************)
NewConn == [pc |-> "new", kind |-> "none", key |-> "", sock_open |-> TRUE,
            text |-> <<>>, frames |-> <<>>]
NewRunner == [pc |-> "none", iteration |-> 0, inner |-> <<>>, tool_calls |-> <<>>,
              pending |-> <<>>, current_messages |-> <<>>, todo |-> <<>>,
              tool_result_content |-> <<>>]
NewChan == [out |-> <<>>, out_open |-> FALSE, cli |-> <<>>, cli_open |-> FALSE]
NewHist == [sent |-> <<>>, provider_calls |-> 0, tool_execs |-> 0, check |-> "none",
            usage_recorded |-> 0, emitted |-> <<>>, calls |-> <<>>,
            assembled |-> FALSE, context |-> <<>>, processed |-> <<>>]

GatewayIdle ==
    /\ conn = [r \in Reqs |-> NewConn]
    /\ runner = [r \in Reqs |-> NewRunner]
    /\ relay = [r \in Reqs |-> "none"]
    /\ chan = [r \in Reqs |-> NewChan]
    /\ store = [k \in Sessions |-> NoSession]
    /\ session_locks = [k \in Sessions |-> Free]
    /\ hist = [r \in Reqs |-> NewHist]
    /\ last_mut = NoMut

NoEnv == [name |-> "meter"]
default_episodic_window == 5
NoCall == [op |-> "none"]

Scenario(name, reqs, kinds, texts, tools, tool_turns, tool_errs, budgets, disconnects, provider_ok) ==
    [ name |-> name, reqs |-> reqs, kinds |-> kinds,
      keys |-> [r \in Reqs |-> IF r = "r1" THEN {"s1"} ELSE Sessions],
      texts |-> texts, tools |-> tools, tool_turns |-> tool_turns,
      usage |-> {<<U32(1), U32(1)>>}, tool_errs |-> tool_errs, budgets |-> budgets,
      disconnects |-> disconnects, provider_ok |-> provider_ok, builds |-> {FALSE},
      windows |-> {1}, token |-> <<>> ]

\* Two requests of either kind in flight together, on one session or two.
Concurrent ==
    Scenario("concurrent", Reqs, {"chat", "webhook"}, 0..MaxText, {0}, 0, {0},
             {Budget(U64(2), NoLimit, NoLimit)}, FALSE, TRUE)
\* One request whose provider asks for tools and whose client may go away.
Solo ==
    [ Scenario("solo", {"r1"}, {"chat", "webhook"}, 0..MaxText, 0..MaxTools, MaxToolTurns,
               {0, 1}, {Budget(NoLimit, NoLimit, NoLimit)}, TRUE, TRUE)
      EXCEPT !.windows = {0, 1} ]
\* One chat.send whose provider asks for a tool in every turn.
ToolLoop ==
    Scenario("tool_loop", {"r1"}, {"chat"}, {0}, {1}, MAX_TOOL_ITERATIONS,
             {0}, {Budget(NoLimit, NoLimit, NoLimit)}, FALSE, TRUE)
\* One chat.send whose provider turn just fits, or exceeds, the inner channel.
LongStream ==
    Scenario("long_stream", {"r1"}, {"chat"}, {INNER_CAP - 2, INNER_CAP - 1}, {0}, 0,
             {0}, {Budget(NoLimit, NoLimit, NoLimit)}, FALSE, TRUE)
\* A gateway whose agent config names no usable provider (from_config fails).
Misconfigured ==
    Scenario("misconfigured", {"r1"}, {"chat", "webhook"}, {0}, {0}, 0,
             {0}, {Budget(NoLimit, NoLimit, NoLimit)}, FALSE, FALSE)

\* One chat.send whose provider reports token counts that do not add up in a
\* u32, under either build profile.
Overflowing ==
    [ Scenario("overflowing", {"r1"}, {"chat"}, {0, 1}, {0}, 0,
               {0}, {Budget(NoLimit, NoLimit, NoLimit)}, FALSE, TRUE)
      EXCEPT !.usage = {<<U32Max, U32(1)>>}, !.builds = BOOLEAN ]

Scenarios == {Concurrent, Solo, ToolLoop, LongStream, Misconfigured, Overflowing}

Init ==
    /\ env \in Scenarios
    /\ now = 1
    /\ overflow_checks \in env.builds
    /\ \E b \in env.budgets : counter = TokenCounter_new(b, Times[now])
    /\ \E w \in env.windows : memory = MemoryEngine_new(w, TRUE)
    /\ router = SessionRouter_new
    /\ route_last = NoRoute
    /\ journal = <<>>
    /\ meter_last = NoCall
    /\ ncalls = 0
    /\ GatewayIdle

(***************************************************************************)
(* chat.send: protocol.rs handle_rpc / handle_chat_send, run on the        *)
(* connection task of server.rs handle_connection.                         *)
(***************************************************************************)
\* Steps 1-2: route, get/create the session, append the user message.
ChatReceive(r) ==
    /\ conn[r].pc = "new"
    /\ r \in env.reqs
    /\ "chat" \in env.kinds
    /\ \E key \in env.keys[r] :
         /\ conn' = [conn EXCEPT ![r].pc = "check", ![r].kind = "chat", ![r].key = key]
         /\ store' = BumpCount(PushMessage(get_or_create(store, key),
                                           key, [role |-> "user", req |-> r,
                                                 content |-> UserContent(r)]), key)
         /\ last_mut' = Mutation(r, "conn", key)
         /\ router' = resolve(router, ParamsOf(key)).router
    /\ UNCHANGED <<meter_vars, route_last, journal, env, memory, runner, relay, chan, session_locks,
                   hist>>

\* BudgetExceeded::fmt: "token budget exceeded ({scope}: {used}/{limit})"
BudgetExceeded_fmt(exceeded) ==
    IF exceeded.ok THEN [text |-> "ok"]
    ELSE [text |-> "token budget exceeded", scope |-> exceeded.scope,
          used |-> exceeded.used, limit |-> exceeded.limit]
BudgetResponse(r, exceeded) == ErrorResponse(request_id(r), BudgetExceeded_fmt(exceeded))
ProviderErrorResponse(r) ==
    ErrorResponse(request_id(r), [text |-> "provider error"])

\* `if let Err(exceeded) = counter.check_budget(..)` does not match.
Admits_Always(result) == TRUE
Admits(result) == result.ok

CheckOutcome(result) == IF result.ok THEN "ok" ELSE "exceeded"

\* Steps 3-7: estimate, check the budget, build the provider, spawn the relay
\* and the runner, return the stream (or a single response).
ChatCheckBudget(r) ==
    /\ conn[r].pc = "check"
    /\ \E est \in EstVals :
         LET out == check_budget(counter, conn[r].key, est, Times[now])
         IN  /\ counter' = out.counter
             /\ hist' = [hist EXCEPT ![r].check = CheckOutcome(out.result),
                                     ![r].assembled = TRUE,
                                     ![r].context = GatewayContext(memory, conn[r].key, r)]
             /\ IF ~Admits(out.result)
                THEN /\ conn' = [conn EXCEPT ![r].pc = "done",
                                   ![r].frames = Append(@, BudgetResponse(r, out.result))]
                     /\ UNCHANGED <<runner, relay, chan>>
                ELSE IF ~env.provider_ok
                THEN /\ conn' = [conn EXCEPT ![r].pc = "done",
                                   ![r].frames = Append(@, ProviderErrorResponse(r))]
                     /\ UNCHANGED <<runner, relay, chan>>
                ELSE /\ conn' = [conn EXCEPT ![r].pc = "stream"]
                     /\ chan' = [chan EXCEPT ![r].out_open = TRUE, ![r].cli_open = TRUE]
                     /\ relay' = [relay EXCEPT ![r] = "run"]
                     /\ runner' = [runner EXCEPT ![r].pc = "lock",
                                     ![r].current_messages =
                                         Append(GatewayContext(memory, conn[r].key, r),
                                                Message_text("user", UserContent(r)))]
    /\ UNCHANGED <<now, overflow_checks, meter_last, ncalls, router_vars, env, memory, store,
                   session_locks, last_mut>>

\* The runner task: `session_lock.lock().await`.
RunnerAcquire(r) ==
    /\ runner[r].pc = "lock"
    /\ session_locks[conn[r].key] = Free
    /\ session_locks' = [session_locks EXCEPT ![conn[r].key] = Task(r, "runner")]
    /\ runner' = [runner EXCEPT ![r].pc = "loop"]
    /\ UNCHANGED <<meter_vars, router_vars, env, memory, conn, relay, chan, store, hist, last_mut>>

(***************************************************************************)
(* agent/mod.rs: AgentRunner::run_with_tools, and the `if let Err` of the  *)
(* task that called it.                                                    *)
(***************************************************************************)
WrapperError(r) ==
    IF conn[r].kind = "chat" THEN Error("provider error") ELSE Error("agent error")

\* The top of the loop: the iteration cap, else one provider call, awaited
\* to its end before anything is read from inner_rx.
RunnerIterate(r) ==
    /\ runner[r].pc = "loop"
    /\ LET it == runner[r].iteration + 1
       IN  IF it > MAX_TOOL_ITERATIONS
           THEN /\ runner' = [runner EXCEPT ![r].iteration = it, ![r].pc = "emit",
                                ![r].pending = <<Error("tool-use loop exceeded max iterations"), Done>>]
                /\ UNCHANGED hist
           ELSE \E o \in call_streaming(it, env) :
                  /\ hist' = [hist EXCEPT ![r].provider_calls = @ + 1,
                                ![r].calls = Append(@, runner[r].current_messages)]
                  /\ runner' =
                       IF Len(o.events) > INNER_CAP
                       THEN [runner EXCEPT ![r].iteration = it, ![r].pc = "stuck",
                               ![r].inner = SubSeq(o.events, 1, INNER_CAP)]
                       ELSE IF o.ok
                       THEN [runner EXCEPT ![r].iteration = it, ![r].pc = "drain",
                               ![r].inner = o.events, ![r].tool_calls = <<>>]
                       ELSE [runner EXCEPT ![r].iteration = it, ![r].pc = "emit",
                               ![r].inner = <<>>,
                               ![r].pending = <<WrapperError(r), Done>>]
    /\ UNCHANGED <<meter_vars, router_vars, env, memory, conn, relay, chan, store, session_locks, last_mut>>

\* {"role": "assistant", "content": [tool_use blocks]}
AssistantToolUse(calls) == [role |-> "assistant", content |-> calls]
\* {"type": "tool_result", "tool_use_id": id, .., "is_error": is_error}
ToolResultBlock(id, is_error) == id \o <<is_error>>
\* {"role": "user", "content": [tool_result blocks]}
UserToolResults_Reversed(results) ==
    [role |-> "user",
     content |-> [n \in 1..Len(results) |-> results[Len(results) + 1 - n]]]
UserToolResults(results) == [role |-> "user", content |-> results]

\* The match on the event: everything but the provider's Done goes to tx.
Forwarded_All(e) == TRUE
Forwarded(e) == e.kind # "done"

\* One turn of `while let Some(event) = inner_rx.recv().await`; after the last
\* event the stream is over and the loop body goes on.
RunnerDrain(r) ==
    /\ runner[r].pc = "drain"
    /\ runner[r].inner # <<>>
    /\ LET e == Head(runner[r].inner)
           rest == Tail(runner[r].inner)
           calls == IF e.kind = "tool_use" THEN Append(runner[r].tool_calls, e.v)
                    ELSE runner[r].tool_calls
       IN  /\ Forwarded(e) => CanSend(chan[r].out, chan[r].out_open, OutCap(r))
           /\ chan' = IF Forwarded(e)
                      THEN [chan EXCEPT ![r].out = AfterSend(@, chan[r].out_open, e)]
                      ELSE chan
           /\ hist' = IF Forwarded(e) THEN [hist EXCEPT ![r].emitted = Append(@, e)]
                      ELSE hist
           /\ runner' =
                IF rest # <<>>
                THEN [runner EXCEPT ![r].inner = rest, ![r].tool_calls = calls]
                ELSE IF calls = <<>>
                THEN [runner EXCEPT ![r].inner = rest, ![r].pc = "emit",
                                    ![r].pending = <<Done>>]
                ELSE [runner EXCEPT ![r].inner = rest, ![r].tool_calls = calls,
                                    ![r].todo = calls,
                                    ![r].current_messages =
                                        Append(@, AssistantToolUse(calls)),
                                    ![r].tool_result_content = <<>>,
                                    ![r].pc = "tools"]
    /\ UNCHANGED <<meter_vars, router_vars, env, memory, conn, relay, store, session_locks, last_mut>>

\* One turn of `for (id, name, input) in &tool_calls`: run the tool, forward
\* its result; after the last one, loop back to the provider.
RunnerTool(r) ==
    /\ runner[r].pc = "tools"
    /\ CanSend(chan[r].out, chan[r].out_open, OutCap(r))
    /\ \E is_error \in env.tool_errs :
         LET id == Head(runner[r].todo)
             e == ToolResult(id, is_error)
             results == Append(runner[r].tool_result_content, ToolResultBlock(id, is_error))
             last == Tail(runner[r].todo) = <<>>
         IN  /\ chan' = [chan EXCEPT ![r].out = AfterSend(@, chan[r].out_open, e)]
             /\ hist' = [hist EXCEPT ![r].tool_execs = @ + 1,
                                     ![r].emitted = Append(@, e)]
             /\ runner' = [runner EXCEPT
                             ![r].todo = Tail(@),
                             ![r].tool_result_content = results,
                             ![r].current_messages =
                                 IF last THEN Append(@, UserToolResults(results)) ELSE @,
                             ![r].pc = IF last THEN "loop" ELSE "tools"]
    /\ UNCHANGED <<meter_vars, router_vars, env, memory, conn, relay, store, session_locks, last_mut>>

\* A send of the closing events: Done, or Error then Done.  When the last is
\* sent run_with_tools (or the wrapper) is through.
RunnerEmit(r) ==
    /\ runner[r].pc = "emit"
    /\ CanSend(chan[r].out, chan[r].out_open, OutCap(r))
    /\ chan' = [chan EXCEPT ![r].out = AfterSend(@, chan[r].out_open, Head(runner[r].pending))]
    /\ hist' = [hist EXCEPT ![r].emitted = Append(@, Head(runner[r].pending))]
    /\ runner' = [runner EXCEPT ![r].pending = Tail(@),
                    ![r].pc = IF Tail(runner[r].pending) # <<>> THEN "emit"
                              ELSE IF conn[r].kind = "chat" THEN "post" ELSE "done"]
    /\ UNCHANGED <<meter_vars, router_vars, env, memory, conn, relay, store, session_locks, last_mut>>

\* The end of the chat.send runner task: bump message_count, drop the guard.
RunnerFinish(r) ==
    /\ runner[r].pc = "post"
    /\ store' = BumpCount(store, conn[r].key)
    /\ last_mut' = Mutation(r, "runner", conn[r].key)
    /\ session_locks' = [session_locks EXCEPT ![conn[r].key] = Free]
    /\ runner' = [runner EXCEPT ![r].pc = "done"]
    /\ UNCHANGED <<meter_vars, router_vars, env, memory, conn, relay, chan, hist>>

(***************************************************************************)
(* protocol.rs: the meter relay task.                                      *)
(***************************************************************************)
\* One turn of `while let Some(event) = meter_rx.recv().await`.
RelayStep(r) ==
    /\ relay[r] = "run"
    /\ chan[r].out # <<>>
    /\ LET e == Head(chan[r].out)
           panics == e.kind = "usage"
                     /\ RecordPanics(UsageInput(e), UsageOutput(e), overflow_checks)
       IN  IF panics
           THEN /\ relay' = [relay EXCEPT ![r] = "panicked"]
                /\ chan' = [chan EXCEPT ![r].out = Tail(@), ![r].out_open = FALSE]
                /\ UNCHANGED <<counter, hist>>
           ELSE /\ CanSend(chan[r].cli, chan[r].cli_open, CLIENT_CAP)
                /\ counter' = IF e.kind = "usage"
                              THEN record_usage(counter, conn[r].key, UsageInput(e),
                                                UsageOutput(e), Times[now])
                              ELSE counter
                /\ hist' = [hist EXCEPT
                              ![r].usage_recorded = IF e.kind = "usage" THEN @ + 1 ELSE @,
                              ![r].sent = IF chan[r].cli_open THEN Append(@, e) ELSE @]
                /\ IF chan[r].cli_open
                   THEN /\ chan' = [chan EXCEPT ![r].out = Tail(@), ![r].cli = Append(@, e)]
                        /\ UNCHANGED relay
                   ELSE /\ chan' = [chan EXCEPT ![r].out = Tail(@), ![r].out_open = FALSE]
                        /\ relay' = [relay EXCEPT ![r] = "done"]
    /\ UNCHANGED <<now, overflow_checks, meter_last, ncalls, router_vars, env, memory, conn, runner, store,
                   session_locks, last_mut>>

\* meter_rx.recv() returns None: the runner task is over and the channel empty.
RelayClose(r) ==
    /\ relay[r] = "run"
    /\ chan[r].out = <<>>
    /\ runner[r].pc = "done"
    /\ relay' = [relay EXCEPT ![r] = "done"]
    /\ chan' = [chan EXCEPT ![r].out_open = FALSE]
    /\ UNCHANGED <<meter_vars, router_vars, env, memory, conn, runner, store, session_locks, hist, last_mut>>

(***************************************************************************)
(* server.rs handle_connection: the RpcResult::Stream arm.                 *)
(***************************************************************************)
\* assistant_text.push_str(text) / response_text.push_str(&text)
push_str_Overwriting(text, e) == <<e.v>>
push_str(text, e) == Append(text, e.v)

EventFrame(r, e) == [id |-> request_id(r), event |-> e.kind, data |-> e]

\* One turn of `while let Some(event) = rx.recv().await`.
ConnForward(r) ==
    /\ conn[r].pc = "stream"
    /\ chan[r].cli # <<>>
    /\ LET e == Head(chan[r].cli)
           text == IF e.kind = "text" THEN push_str(conn[r].text, e) ELSE conn[r].text
       IN  IF ~conn[r].sock_open
           THEN \* socket.send fails: break, rx is dropped
                /\ conn' = [conn EXCEPT ![r].pc = "done", ![r].text = text]
                /\ chan' = [chan EXCEPT ![r].cli = Tail(@), ![r].cli_open = FALSE]
                /\ UNCHANGED <<store, last_mut, memory, hist>>
           ELSE IF e.kind = "done"
           THEN /\ conn' = [conn EXCEPT ![r].pc = "done",
                              ![r].frames = Append(@, EventFrame(r, e))]
                /\ chan' = [chan EXCEPT ![r].cli = Tail(@), ![r].cli_open = FALSE]
                /\ IF text # <<>>
                   THEN /\ store' = PushMessage(store, conn[r].key,
                                                [role |-> "assistant", req |-> r,
                                                 content |-> text])
                        /\ last_mut' = Mutation(r, "conn", conn[r].key)
                        /\ memory' = process_response(memory, conn[r].key,
                                          Message_text("user", UserContent(r)),
                                          Message_text("assistant", text))
                        /\ hist' = [hist EXCEPT ![r].processed =
                                      Append(@, <<Message_text("user", UserContent(r)),
                                                  Message_text("assistant", text)>>)]
                   ELSE UNCHANGED <<store, last_mut, memory, hist>>
           ELSE /\ conn' = [conn EXCEPT ![r].text = text,
                              ![r].frames = Append(@, EventFrame(r, e))]
                /\ chan' = [chan EXCEPT ![r].cli = Tail(@)]
                /\ UNCHANGED <<store, last_mut, memory, hist>>
    /\ UNCHANGED <<meter_vars, router_vars, env, runner, relay, session_locks>>

\* rx.recv() returns None: the relay is gone and the channel empty.
ConnStreamEnd(r) ==
    /\ conn[r].pc = "stream"
    /\ chan[r].cli = <<>>
    /\ relay[r] \in {"done", "panicked"}
    /\ conn' = [conn EXCEPT ![r].pc = "done"]
    /\ chan' = [chan EXCEPT ![r].cli_open = FALSE]
    /\ UNCHANGED <<meter_vars, router_vars, env, memory, runner, relay, store, session_locks, hist, last_mut>>

\* The peer goes away while its chat.send is streaming.
ClientDisconnect(r) ==
    /\ env.disconnects
    /\ conn[r].pc = "stream"
    /\ conn[r].sock_open
    /\ conn' = [conn EXCEPT ![r].sock_open = FALSE]
    /\ UNCHANGED <<meter_vars, router_vars, env, memory, runner, relay, chan, store, session_locks, hist, last_mut>>

(***************************************************************************)
(* server.rs webhook_handler.                                              *)
(***************************************************************************)
HttpResponse(r, status) == [id |-> r, status |-> status]

\* Steps 1-3: adapter lookup, parse_incoming, routing; then the handler waits
\* for the session lock.
WebhookReceive(r) ==
    /\ conn[r].pc = "new"
    /\ r \in env.reqs
    /\ "webhook" \in env.kinds
    /\ \E key \in env.keys[r], valid \in BOOLEAN :
         IF valid
         THEN /\ conn' = [conn EXCEPT ![r].pc = "wlock", ![r].kind = "webhook",
                                      ![r].key = key]
              /\ router' = resolve(router, ParamsOf(key)).router
         ELSE /\ conn' = [conn EXCEPT ![r].pc = "done", ![r].kind = "webhook",
                                      ![r].key = key,
                                      ![r].frames = Append(@, HttpResponse(r, "400"))]
              /\ UNCHANGED router
    /\ UNCHANGED <<meter_vars, route_last, journal, env, memory, runner, relay, chan, store,
                   session_locks, hist, last_mut>>

\* `session_lock.lock().await`: the guard lives until the handler returns.
WebhookAcquire(r) ==
    /\ conn[r].pc = "wlock"
    /\ session_locks[conn[r].key] = Free
    /\ session_locks' = [session_locks EXCEPT ![conn[r].key] = Task(r, "conn")]
    /\ conn' = [conn EXCEPT ![r].pc = "wstart"]
    /\ UNCHANGED <<meter_vars, router_vars, env, memory, runner, relay, chan, store, hist, last_mut>>

\* Steps 4-6: append the user message, build the provider, spawn the agent task.
WebhookStart(r) ==
    /\ conn[r].pc = "wstart"
    /\ store' = BumpCount(PushMessage(get_or_create(store, conn[r].key), conn[r].key,
                                      [role |-> "user", req |-> r,
                                       content |-> UserContent(r)]), conn[r].key)
    /\ last_mut' = Mutation(r, "conn", conn[r].key)
    /\ hist' = [hist EXCEPT ![r].assembled = TRUE,
                            ![r].context = GatewayContext(memory, conn[r].key, r)]
    /\ IF env.provider_ok
       THEN /\ conn' = [conn EXCEPT ![r].pc = "collect"]
            /\ chan' = [chan EXCEPT ![r].out_open = TRUE]
            /\ runner' = [runner EXCEPT ![r].pc = "loop",
                            ![r].current_messages =
                                Append(GatewayContext(memory, conn[r].key, r),
                                       Message_text("user", UserContent(r)))]
            /\ UNCHANGED session_locks
       ELSE /\ conn' = [conn EXCEPT ![r].pc = "done",
                          ![r].frames = Append(@, HttpResponse(r, "500"))]
            /\ session_locks' = [session_locks EXCEPT ![conn[r].key] = Free]
            /\ UNCHANGED <<chan, runner>>
    /\ UNCHANGED <<meter_vars, router_vars, env, memory, relay>>

\* Step 7: one turn of `while let Some(event) = rx.recv().await`.
WebhookCollect(r) ==
    /\ conn[r].pc = "collect"
    /\ chan[r].out # <<>>
    /\ LET e == Head(chan[r].out)
       IN  CASE e.kind = "text" ->
                  /\ conn' = [conn EXCEPT ![r].text = push_str(@, e)]
                  /\ chan' = [chan EXCEPT ![r].out = Tail(@)]
                  /\ UNCHANGED session_locks
             [] e.kind = "done" ->
                  /\ conn' = [conn EXCEPT ![r].pc = "wfinish"]
                  /\ chan' = [chan EXCEPT ![r].out = Tail(@)]
                  /\ UNCHANGED session_locks
             [] e.kind = "error" ->
                  \* return 500: the guard and rx are dropped
                  /\ conn' = [conn EXCEPT ![r].pc = "done",
                                ![r].frames = Append(@, HttpResponse(r, "500"))]
                  /\ chan' = [chan EXCEPT ![r].out = Tail(@), ![r].out_open = FALSE]
                  /\ session_locks' = [session_locks EXCEPT ![conn[r].key] = Free]
             [] OTHER ->
                  /\ chan' = [chan EXCEPT ![r].out = Tail(@)]
                  /\ UNCHANGED <<conn, session_locks>>
    /\ UNCHANGED <<meter_vars, router_vars, env, memory, runner, relay, store, hist, last_mut>>

\* Steps 8-10: append the assistant text, format and answer; the guard is
\* dropped on return.
WebhookFinish(r) ==
    /\ conn[r].pc = "wfinish"
    /\ IF conn[r].text # <<>>
       THEN /\ store' = BumpCount(PushMessage(store, conn[r].key,
                                              [role |-> "assistant", req |-> r,
                                               content |-> conn[r].text]), conn[r].key)
            /\ last_mut' = Mutation(r, "conn", conn[r].key)
            /\ memory' = process_response(memory, conn[r].key,
                              Message_text("user", UserContent(r)),
                              Message_text("assistant", conn[r].text))
            /\ hist' = [hist EXCEPT ![r].processed =
                          Append(@, <<Message_text("user", UserContent(r)),
                                      Message_text("assistant", conn[r].text)>>)]
       ELSE UNCHANGED <<store, last_mut, memory, hist>>
    /\ conn' = [conn EXCEPT ![r].pc = "done", ![r].frames = Append(@, HttpResponse(r, "200"))]
    /\ chan' = [chan EXCEPT ![r].out_open = FALSE]
    /\ session_locks' = [session_locks EXCEPT ![conn[r].key] = Free]
    /\ UNCHANGED <<meter_vars, router_vars, env, runner, relay>>

Next ==
    \E r \in Reqs :
        \/ ChatReceive(r)
        \/ ChatCheckBudget(r)
        \/ RunnerAcquire(r)
        \/ RunnerIterate(r)
        \/ RunnerDrain(r)
        \/ RunnerTool(r)
        \/ RunnerEmit(r)
        \/ RunnerFinish(r)
        \/ RelayStep(r)
        \/ RelayClose(r)
        \/ ConnForward(r)
        \/ ConnStreamEnd(r)
        \/ ClientDisconnect(r)
        \/ WebhookReceive(r)
        \/ WebhookAcquire(r)
        \/ WebhookStart(r)
        \/ WebhookCollect(r)
        \/ WebhookFinish(r)

Spec == Init /\ [][Next]_vars

(***************************************************************************)
(* SpecStream: one chat.send whose provider turns are long, under the      *)
(* scheduling tokio gives: a task that can take a step eventually takes    *)
(* it.  The client stays connected and keeps reading.                      *)
(***************************************************************************)
StreamInit ==
    /\ env \in {LongStream, ToolLoop}
    /\ now = 1
    /\ overflow_checks = FALSE
    /\ \E b \in env.budgets : counter = TokenCounter_new(b, Times[now])
    /\ \E w \in env.windows : memory = MemoryEngine_new(w, TRUE)
    /\ router = SessionRouter_new
    /\ route_last = NoRoute
    /\ journal = <<>>
    /\ meter_last = NoCall
    /\ ncalls = 0
    /\ GatewayIdle

RunnerStep(r) ==
    \/ RunnerAcquire(r)
    \/ RunnerIterate(r)
    \/ RunnerDrain(r)
    \/ RunnerTool(r)
    \/ RunnerEmit(r)
    \/ RunnerFinish(r)
RelayTask(r) == RelayStep(r) \/ RelayClose(r)
ConnTask(r) == ChatReceive(r) \/ ChatCheckBudget(r) \/ ConnForward(r)

StreamNext == \E r \in Reqs : RunnerStep(r) \/ RelayTask(r) \/ ConnTask(r)

SpecStream ==
    /\ StreamInit
    /\ [][StreamNext]_vars
    /\ \A r \in Reqs : /\ WF_vars(RunnerStep(r))
                        /\ WF_vars(RelayTask(r))
                        /\ WF_vars(ConnTask(r))

(***************************************************************************)
(* SpecMeter: any sequence of TokenCounter calls under an advancing clock. *)
(***************************************************************************)


MeterInit ==
    /\ now = 1
    /\ overflow_checks \in BOOLEAN
    /\ \E b \in Budgets : counter = TokenCounter_new(b, Times[now])
    /\ meter_last = NoCall
    /\ ncalls = 0
    /\ GatewayIdle
    /\ memory = MemoryEngine_new(default_episodic_window, TRUE)
    /\ router = SessionRouter_new
    /\ route_last = NoRoute
    /\ journal = <<>>
    /\ env = NoEnv

\* A caller invokes check_budget.
MeterCheck ==
    /\ ncalls < MaxCalls
    /\ \E key \in Sessions, est \in EstVals :
         LET out == check_budget(counter, key, est, Times[now])
         IN  /\ counter' = out.counter
             /\ meter_last' = [op |-> "check", key |-> key, est |-> est,
                               before |-> counter, at |-> Times[now], result |-> out.result]
    /\ ncalls' = ncalls + 1
    /\ UNCHANGED <<now, overflow_checks>>
    /\ UNCHANGED <<router_vars, gateway_vars>>

\* A caller invokes record_usage.
MeterRecord ==
    /\ ncalls < MaxCalls
    /\ \E key \in Sessions, u \in UsagePairs :
         /\ counter' = IF RecordPanics(u[1], u[2], overflow_checks) THEN counter
                       ELSE record_usage(counter, key, u[1], u[2], Times[now])
         /\ meter_last' = [op |-> "record", key |-> key, i |-> u[1], o |-> u[2],
                           before |-> counter, at |-> Times[now],
                           panicked |-> RecordPanics(u[1], u[2], overflow_checks)]
    /\ ncalls' = ncalls + 1
    /\ UNCHANGED <<now, overflow_checks>>
    /\ UNCHANGED <<router_vars, gateway_vars>>

\* Time passes to the clock's next reading.
Tick ==
    /\ now < Len(Times)
    /\ now' = now + 1
    /\ UNCHANGED <<counter, overflow_checks, meter_last, ncalls>>
    /\ UNCHANGED <<router_vars, gateway_vars>>

MeterNext == MeterCheck \/ MeterRecord \/ Tick

SpecMeter == MeterInit /\ [][MeterNext]_vars

(***************************************************************************)
(* SpecRouter: a router configured with one of several binding lists and   *)
(* asked to resolve arbitrary requests.                                    *)
(***************************************************************************)
MaxResolves == 2

\* The five inputs of resolve.
Requests ==
    [channel : {<<"t">>, <<"d">>}, account : {<<"a">>, <<"b">>},
     peer : {None, Some(<<"p">>), Some(<<"q">>)},
     guild : {None, Some(<<"g">>)}, team : {None, Some(<<"m">>)}]

ByChannel  == Binding(<<"c">>, Some(<<"t">>), None, None, None, None)
ByChannel2 == Binding(<<"c", "2">>, Some(<<"t">>), None, None, None, None)
ByAccount  == Binding(<<"a", "c">>, None, Some(<<"a">>), None, None, None)
ByTeam     == Binding(<<"t", "m">>, None, None, None, None, Some(<<"m">>))
ByGuild    == Binding(<<"g", "d">>, None, None, None, Some(<<"g">>), None)
ByPeer     == Binding(<<"p", "r">>, None, None, Some(<<"p">>), None, None)
ByPeerOnChannel == Binding(<<"p", "t">>, Some(<<"t">>), None, Some(<<"p">>), None, None)
ByGuildAndPeer  == Binding(<<"g", "p">>, None, None, Some(<<"p">>), Some(<<"g">>), None)
ByAccountAndTeam == Binding(<<"a", "t">>, None, Some(<<"a">>), None, None, Some(<<"m">>))

\* config.bindings: every binding names at least one discriminator.
BindingLists ==
    { <<>>,
      <<ByChannel, ByAccount, ByTeam, ByGuild, ByPeer>>,
      <<ByPeer, ByGuild, ByTeam, ByAccount, ByChannel>>,
      <<ByChannel, ByChannel2>>,
      <<ByChannel2, ByChannel>>,
      <<ByPeerOnChannel, ByChannel>>,
      <<ByGuildAndPeer, ByAccount>>,
      <<ByAccountAndTeam, ByChannel>> }

\* server::run: SessionRouter::new(), then add_binding for each configured one.
RECURSIVE Configured(_, _)
Configured(bs, n) ==
    IF n = 0 THEN SessionRouter_new ELSE add_binding(Configured(bs, n - 1), bs[n])

RouterInit ==
    /\ \E bs \in BindingLists : router = Configured(bs, Len(bs))
    /\ route_last = NoRoute
    /\ journal = <<>>
    /\ now = 1
    /\ overflow_checks = FALSE
    /\ counter = TokenCounter_new(Budget(NoLimit, NoLimit, NoLimit), Times[now])
    /\ meter_last = NoCall
    /\ ncalls = 0
    /\ GatewayIdle
    /\ memory = MemoryEngine_new(default_episodic_window, TRUE)
    /\ env = NoEnv

\* A caller invokes resolve.
RouterResolve ==
    /\ route_last.n < MaxResolves
    /\ \E q \in Requests :
         LET out == resolve(router, q)
         IN  /\ router' = out.router
             /\ route_last' = [op |-> "resolve", n |-> route_last.n + 1, q |-> q,
                               route |-> out.route, before |-> router,
                               keys |-> route_last.keys \cup {out.route.session_key}]
    /\ UNCHANGED <<meter_vars, gateway_vars, journal>>

RouterNext == RouterResolve

SpecRouter == RouterInit /\ [][RouterNext]_vars

(***************************************************************************)
(* The semantic store on its own: entities are stored one after another.   *)
(***************************************************************************)
MaxStores == 3

\* uuid::Uuid::new_v4(): a value no stored entity carries.
UuidSpace == 1..(MaxStores + 1)

SemanticInit ==
    /\ \E enabled \in BOOLEAN :
         memory = MemoryEngine_new(default_episodic_window, enabled)
    /\ router = SessionRouter_new
    /\ route_last = NoRoute
    /\ journal = <<>>
    /\ now = 1
    /\ overflow_checks = FALSE
    /\ counter = TokenCounter_new(Budget(NoLimit, NoLimit, NoLimit), Times[now])
    /\ meter_last = NoCall
    /\ ncalls = 0
    /\ GatewayIdle
    /\ env = NoEnv

\* process_response stores one extracted entity.
SemanticStore ==
    /\ semantic_count(memory.semantic) < MaxStores
    /\ \E subject \in Subjects, predicate \in Predicates, object \in Objects,
          id \in UuidSpace \ StoredIds(memory.semantic) :
         LET entity == make_entity(id, subject, predicate, object, Times[now])
             existing_id == find_active(memory.semantic, subject, predicate)
             walk == IF existing_id = <<>> THEN {subject}
                     ELSE Holders(memory.semantic, existing_id[1])
         IN  \E first \in walk :
               memory' = [memory EXCEPT
                            !.semantic = semantic_store(@, entity, Times[now], first)]
    /\ UNCHANGED <<meter_vars, router_vars, conn, runner, relay, chan, store,
                   session_locks, hist, last_mut, env>>

SemanticNext == SemanticStore

SpecSemantic == SemanticInit /\ [][SemanticNext]_vars

(***************************************************************************)
(* The episodic memory on its own: messages are appended one at a time.    *)
(***************************************************************************)
MaxAppends == 6
MaxWindow == 2

\* The messages a turn appends.
TurnMessageSet ==
    {Message_text("user", << <<0, 1>> >>), Message_text("assistant", << <<0, 2>> >>)}

EpisodicInit ==
    /\ \E w \in 0..MaxWindow : memory = MemoryEngine_new(w, TRUE)
    /\ journal = [key \in Sessions |-> <<>>]
    /\ router = SessionRouter_new
    /\ route_last = NoRoute
    /\ now = 1
    /\ overflow_checks = FALSE
    /\ counter = TokenCounter_new(Budget(NoLimit, NoLimit, NoLimit), Times[now])
    /\ meter_last = NoCall
    /\ ncalls = 0
    /\ GatewayIdle
    /\ env = NoEnv

\* memory.episodic.append(session_key, message)
EpisodicAppend ==
    /\ Len(journal["s1"]) + Len(journal["s2"]) < MaxAppends
    /\ \E key \in Sessions, message \in TurnMessageSet :
         /\ memory' = episodic_append(memory, key, message)
         /\ journal' = [journal EXCEPT ![key] = Append(@, message)]
    /\ UNCHANGED <<meter_vars, router, route_last, conn, runner, relay, chan, store,
                   session_locks, hist, last_mut, env>>

EpisodicNext == EpisodicAppend

SpecEpisodic == EpisodicInit /\ [][EpisodicNext]_vars

(***************************************************************************)
(* Context assembly on its own: a memory engine that has served turns is   *)
(* asked for contexts.                                                     *)
(***************************************************************************)
MaxAssembles == 1

\* semantic.store of the entities made from triples[1..n], ids 1..n.
RECURSIVE Learned(_, _, _)
Learned(enabled, triples, n) ==
    IF n = 0 THEN SemanticMemory_new(enabled)
    ELSE LET sem == Learned(enabled, triples, n - 1)
             entity == make_entity(n, triples[n][1], triples[n][2], triples[n][3], Times[1])
         IN  semantic_store(sem, entity, Times[1], entity.subject)

User == <<"u", "s", "e", "r">>
Dog == <<"d", "o", "g">>
Name == <<"n", "a", "m", "e">>
Nihon == <<"U+65E5", "U+672C">>
Trait(i) == <<"t", "r", "a", "i", "t", <<"1", "2", "3", "4", "5", "6">>[i]>>

\* Fact lists a conversation may have left behind; the last has twelve
\* active facts that share their object.
FactLists ==
    { <<>>,
      << <<User, Name, <<"x">>>> >>,
      << <<User, Name, <<"x">>>>, <<User, Name, <<"y">>>>, <<Dog, Name, <<"r", "e", "x">>>> >>,
      << <<User, <<"l", "o", "c">>, Nihon>> >>,
      [i \in 1..12 |-> <<IF i <= 6 THEN User ELSE Dog, Trait(((i - 1) % 6) + 1),
                          <<"z", "z", "z">>>>] }

Queries ==
    { <<>>,
      <<"d", "o", "g">>,
      <<"D", "o", "g", "?">>,
      <<"i", "s", " ", "x">>,
      <<"a", "?", "b">>,
      <<"z", "z", "z">>,
      Nihon,
      <<"r", "e", "x", " ", "n", "a", "m", "e">> }

SoulTexts == {<<"b", "e", " ", "k", "i", "n", "d">>, <<"b", "e", " ", "b", "r", "i", "e", "f">>}

NoAssemble == [op |-> "none", n |-> 0]

ContextInit ==
    /\ \E enabled \in BOOLEAN, facts \in FactLists, loaded \in BOOLEAN :
         LET m0 == MemoryEngine_new(1, enabled)
             m1 == [m0 EXCEPT !.semantic = Learned(enabled, facts, Len(facts))]
             m2 == process_response(m1, "s1", Message_text("user", <<"h", "i">>),
                                    Message_text("assistant", <<"y", "o">>))
         IN  memory = IF loaded
                      THEN [m2 EXCEPT !.soul = soul_load(@, <<"c">>,
                                                 <<"b", "e", " ", "k", "i", "n", "d">>)]
                      ELSE m2
    /\ journal = NoAssemble
    /\ router = SessionRouter_new
    /\ route_last = NoRoute
    /\ now = 1
    /\ overflow_checks = FALSE
    /\ counter = TokenCounter_new(Budget(NoLimit, NoLimit, NoLimit), Times[now])
    /\ meter_last = NoCall
    /\ ncalls = 0
    /\ GatewayIdle
    /\ env = NoEnv

\* memory.assemble_context(session_key, agent_id, query)
ContextAssemble ==
    /\ journal.n < MaxAssembles
    /\ \E session_key \in Sessions, agent_id \in SoulAgents, query \in Queries,
          walk \in Walks, changed \in {<<>>} \cup {<<t>> : t \in SoulTexts} :
         LET out == assemble_context(memory, session_key, agent_id, query, walk, changed)
         IN  /\ memory' = out.memory
             /\ journal' = [op |-> "assemble", n |-> journal.n + 1,
                            session_key |-> session_key, agent_id |-> agent_id,
                            query |-> query, before |-> memory, context |-> out.context]
    /\ UNCHANGED <<meter_vars, router, route_last, conn, runner, relay, chan, store,
                   session_locks, hist, last_mut, env>>

ContextNext == ContextAssemble

SpecContext == ContextInit /\ [][ContextNext]_vars

(***************************************************************************)
(* One WebSocket connection from accept on: handshake, message loop, and   *)
(* one chat.send.  journal[r] holds the inbound frames read so far.        *)
(***************************************************************************)
MaxFrames == 2

Secret == <<"s", "3">>

\* What a client may send first.
FirstFrames ==
    { TextFrame(JsonObject([token |-> JsonString(Secret)])),
      TextFrame(JsonObject([token |-> JsonString(<<"s", "4">>)])),
      TextFrame(JsonObject([token |-> JsonString(<<"s">>)])),
      TextFrame(JsonObject([token |-> JsonString(<<"s", "3", "3">>)])),
      TextFrame(JsonObject([token |-> JsonNumber(3)])),
      TextFrame(JsonObject([id |-> JsonString(<<"a">>), method |-> JsonString("ping")])),
      TextFrame(JsonNull),
      TextFrame(JsonMalformed),
      BinaryFrame, PingFrame, CloseFrame, NoFrame }

\* What a client may send in the message loop besides a well-formed chat.send.
LoopFrames ==
    { TextFrame(JsonMalformed),
      TextFrame(JsonObject([method |-> JsonString("ping")])),
      TextFrame(JsonObject([id |-> JsonNull, method |-> JsonString("ping")])),
      TextFrame(JsonObject([id |-> JsonString(<<"a">>), method |-> JsonString("ping")])),
      TextFrame(JsonObject([id |-> JsonNumber(7), method |-> JsonString("status")])),
      TextFrame(JsonObject([id |-> JsonNumber(0), method |-> JsonString("plugin.list")])),
      TextFrame(JsonObject([id |-> JsonNumber(105), method |-> JsonString("foo")])),
      TextFrame(JsonObject([id |-> JsonString(<<"b">>), method |-> JsonString("chat.send"),
                            params |-> JsonObject([channel |-> JsonString(<<"w">>)])])),
      BinaryFrame, CloseFrame }

\* A gateway serving connection r, with or without a token configured.
Connecting(r, token) ==
    [ Scenario("connection", {r}, {"chat"}, {1}, {0}, 0, {0},
               {Budget(NoLimit, NoLimit, NoLimit)}, FALSE, TRUE)
      EXCEPT !.token = token ]

ConnectionInit ==
    /\ env \in {Connecting(r, token) : r \in Reqs, token \in {<<>>, <<Secret>>}}
    /\ now = 1
    /\ overflow_checks = FALSE
    /\ counter = TokenCounter_new(Budget(NoLimit, NoLimit, NoLimit), Times[now])
    /\ memory = MemoryEngine_new(1, TRUE)
    /\ router = SessionRouter_new
    /\ route_last = NoRoute
    /\ journal = [r \in Reqs |-> <<>>]
    /\ meter_last = NoCall
    /\ ncalls = 0
    /\ conn = [r \in Reqs |-> [NewConn EXCEPT !.pc = "accept"]]
    /\ runner = [r \in Reqs |-> NewRunner]
    /\ relay = [r \in Reqs |-> "none"]
    /\ chan = [r \in Reqs |-> NewChan]
    /\ store = [k \in Sessions |-> NoSession]
    /\ session_locks = [k \in Sessions |-> Free]
    /\ hist = [r \in Reqs |-> NewHist]
    /\ last_mut = NoMut

\* handle_connection starts: with no token configured the hello goes out at
\* once, otherwise the first message is awaited.
ConnAccept(r) ==
    /\ conn[r].pc = "accept"
    /\ r \in env.reqs
    /\ conn' = IF env.token = <<>>
               THEN [conn EXCEPT ![r].pc = "new", ![r].frames = Append(@, Hello)]
               ELSE [conn EXCEPT ![r].pc = "auth"]
    /\ UNCHANGED <<meter_vars, router_vars, env, runner, relay, chan, store,
                   session_locks, memory, hist, last_mut>>

\* The first message arrives (or the peer goes away): hello, or auth_failed
\* and close.  A send to a peer that is gone delivers nothing.
ConnAuth(r) ==
    /\ conn[r].pc = "auth"
    /\ \E first \in FirstFrames :
         LET authed == IF first.type = "text"
                       THEN verify_connect(first.body, env.token)
                       ELSE FALSE
         IN  /\ journal' = [journal EXCEPT ![r] = Append(@, first)]
             /\ conn' = IF authed
                        THEN [conn EXCEPT ![r].pc = "new", ![r].frames = Append(@, Hello)]
                        ELSE [conn EXCEPT ![r].pc = "closed", ![r].sock_open = FALSE,
                                          ![r].frames = IF first.type = "none" THEN @
                                                        ELSE Append(@, AuthFailed)]
    /\ UNCHANGED <<meter_vars, router, route_last, env, runner, relay, chan, store,
                   session_locks, memory, hist, last_mut>>

\* One turn of the message loop on a frame that does not start a stream: a
\* text frame is answered by handle_rpc's response, Close ends the loop,
\* anything else is skipped.
ConnRead(r) ==
    /\ conn[r].pc = "new"
    /\ r \in env.reqs
    /\ Len(journal[r]) < MaxFrames
    /\ \E frame \in LoopFrames :
         /\ journal' = [journal EXCEPT ![r] = Append(@, frame)]
         /\ conn' = CASE frame.type = "text" ->
                           [conn EXCEPT ![r].frames =
                               @ \o handle_rpc(frame.body, 0, session_count(router)).response]
                      [] frame.type = "close" ->
                           [conn EXCEPT ![r].pc = "closed", ![r].sock_open = FALSE]
                      [] OTHER -> conn
    /\ UNCHANGED <<meter_vars, router, route_last, env, runner, relay, chan, store,
                   session_locks, memory, hist, last_mut>>

ConnectionNext ==
    \E r \in Reqs :
        \/ ConnAccept(r)
        \/ ConnAuth(r)
        \/ ConnRead(r)
        \/ ChatReceive(r)
        \/ ChatCheckBudget(r)
        \/ RunnerAcquire(r)
        \/ RunnerIterate(r)
        \/ RunnerDrain(r)
        \/ RunnerEmit(r)
        \/ RunnerFinish(r)
        \/ RelayStep(r)
        \/ RelayClose(r)
        \/ ConnForward(r)

SpecConnection == ConnectionInit /\ [][ConnectionNext]_vars

(***************************************************************************)
(* Claims about the token meter.                                           *)
(***************************************************************************)
\* The mathematical a + b > l for u64 a, b, l.
SumGt(a, b, l) == AddOverflows(a, b) \/ Gt(WrappingAdd(a, b), l)

ScopeOrder == <<"session", "daily", "monthly">>
ScopeLimit(c, k) ==
    CASE k = "session" -> c.session_limit
      [] k = "daily"   -> c.daily_limit
      [] k = "monthly" -> c.monthly_limit
ScopeUsed(c, k, key) ==
    CASE k = "session" -> SessionUsed(c, key)
      [] k = "daily"   -> c.daily_used
      [] k = "monthly" -> c.monthly_used
ScopeOver(c, k, key, est) ==
    /\ ScopeLimit(c, k) # NoLimit
    /\ SumGt(ScopeUsed(c, k, key), est, ScopeLimit(c, k))

\* C8: check_budget(session, est) returns BudgetExceeded iff some configured
\* limit L has used + est > L (used + est = L is admitted, no limit never
\* fails); the reported scope is the first exceeded one in the order session,
\* daily, monthly, and the reported used is the total before adding est.
C8_CheckBudgetDecides ==
    meter_last.op = "check" =>
      LET res == meter_last.result
          key == meter_last.key
          est == meter_last.est
          over == {n \in 1..3 : ScopeOver(counter, ScopeOrder[n], key, est)}
      IN  /\ res.ok <=> over = {}
          /\ ~res.ok =>
                LET n == CHOOSE m \in over : \A q \in over : m <= q
                IN  /\ res.scope[1] = ScopeOrder[n]
                    /\ ScopeOrder[n] = "session" => res.scope = <<"session", key>>
                    /\ res.used = ScopeUsed(counter, ScopeOrder[n], key)
                    /\ res.limit = ScopeLimit(counter, ScopeOrder[n])

\* C8 witness: a check refused on the daily scope although a session limit is
\* configured and met exactly (used + est = limit) and the monthly limit is
\* exceeded too.
C8_Witness ==
    /\ meter_last.op = "check"
    /\ ~meter_last.result.ok
    /\ meter_last.result.scope = <<"daily">>
    /\ counter.session_limit # NoLimit
    /\ WrappingAdd(SessionUsed(counter, meter_last.key), meter_last.est)
         = counter.session_limit
    /\ ScopeOver(counter, "monthly", meter_last.key, meter_last.est)

\* C9: record_usage(session, .., i, o) increases the session total, the daily
\* total and the monthly total each by exactly i + o and appends exactly one
\* audit record carrying i and o, for all u32 i and o; hence a session's
\* total_tokens equals the sum of input_tokens + output_tokens over its records.
C9_RecordAddsExactSum ==
    /\ meter_last.op = "record" =>
          LET b == maybe_reset_periods(meter_last.before, meter_last.at)
              key == meter_last.key
              sum(x) == WrappingAdd(WrappingAdd(x, AsU64(meter_last.i)), AsU64(meter_last.o))
          IN  /\ SessionUsed(counter, key) = sum(SessionUsed(b, key))
              /\ counter.daily_used = sum(b.daily_used)
              /\ counter.monthly_used = sum(b.monthly_used)
              /\ Len(counter.records) = Len(b.records) + 1
              /\ counter.records[Len(counter.records)].input_tokens = meter_last.i
              /\ counter.records[Len(counter.records)].output_tokens = meter_last.o
    /\ \A key \in Sessions :
          LET u == get_usage_session(counter, key)
          IN  u.total_tokens = WrappingAdd(u.input_tokens, u.output_tokens)

\* C10: the daily and monthly used counters never decrease between period
\* rollovers, a session's used counter never decreases, and check_budget
\* changes no counter except by a rollover (a refused check included) and
\* never touches the audit log.
C10_UsedMonotonic ==
    [][ /\ \A key \in Sessions : Le(SessionUsed(counter, key), SessionUsed(counter', key))
        /\ counter'.daily_start = counter.daily_start
              => Le(counter.daily_used, counter'.daily_used)
        /\ counter'.monthly_start = counter.monthly_start
              => Le(counter.monthly_used, counter'.monthly_used)
        /\ (ncalls' # ncalls /\ meter_last'.op = "check") =>
              /\ counter'.session_usage = counter.session_usage
              /\ counter'.records = counter.records
              /\ \/ /\ counter'.daily_used = counter.daily_used
                    /\ counter'.daily_start = counter.daily_start
                 \/ /\ counter'.daily_used = U64(0)
                    /\ TimeGt(counter'.daily_start, counter.daily_start)
              /\ \/ /\ counter'.monthly_used = counter.monthly_used
                    /\ counter'.monthly_start = counter.monthly_start
                 \/ /\ counter'.monthly_used = U64(0)
                    /\ TimeGt(counter'.monthly_start, counter.monthly_start)
      ]_vars

\* C10 witness: a refused check that rolled the day over after usage had been
\* recorded in the earlier day.
C10_Witness ==
    /\ meter_last.op = "check"
    /\ ~meter_last.result.ok
    /\ meter_last.before.daily_used # U64(0)
    /\ counter.daily_start # meter_last.before.daily_start
    /\ counter.daily_used = U64(0)

(***************************************************************************)
(* Claims about the gateway.                                               *)
(***************************************************************************)
\* The task of r is inside run_with_tools.
InRunWithTools(r) == runner[r].pc \in {"loop", "stuck", "drain", "tools"}

\* C1: for every session key at most one task is executing an agent turn
\* (run_with_tools) at any time, whether started by chat.send or by a webhook.
C1_OneTurnPerSession ==
    \A p, q \in Reqs :
        (p # q /\ InRunWithTools(p) /\ InRunWithTools(q)) => conn[p].key # conn[q].key

LastIs(s, kind) == s # <<>> /\ s[Len(s)].kind = kind

\* C2: the events put on the client channel of a chat.send hold at most one
\* Done and nothing after it, and once runner and relay are through and the
\* client never went away they end with Done: on the text path, after tool
\* iterations, on the max-iterations path and when run_with_tools returns Err.
C2_DoneIsLast ==
    \A r \in Reqs :
        LET s == hist[r].sent
        IN  /\ \A n \in 1..Len(s) : s[n].kind = "done" => n = Len(s)
            /\ (conn[r].kind = "chat" /\ conn[r].sock_open
                   /\ runner[r].pc = "done" /\ relay[r] = "done")
                 => LastIs(s, "done")

\* C2 witness: a chat.send that ran into the iteration cap and whose client
\* channel ends with that Error and one Done.
C2_Witness ==
    \E r \in Reqs :
        LET s == hist[r].sent
        IN  /\ hist[r].provider_calls = MAX_TOOL_ITERATIONS
            /\ runner[r].pc = "done"
            /\ Len(s) > 1
            /\ s[Len(s)] = Done
            /\ s[Len(s) - 1] = Error("tool-use loop exceeded max iterations")

\* The client channel of r has received Done and r's runner is over, its
\* session lock released.
TurnCompleted(r) ==
    /\ LastIs(hist[r].sent, "done")
    /\ runner[r].pc = "done"
    /\ session_locks[conn[r].key] # Task(r, "runner")

\* C3: every chat.send admitted by the budget check eventually delivers Done
\* to the client channel and its runner releases the session lock, however
\* many events the provider turn streams.
C3_AdmittedTurnCompletes ==
    \A r \in Reqs : (conn[r].pc = "stream") ~> TurnCompleted(r)

\* C4: every mutation of a session's message log or counter is made by a task
\* that holds that session's lock at that moment.
C4_MutationsUnderLock ==
    last_mut.by # Free => last_mut.holder = last_mut.by

\* C5: once the client channel's receiver is dropped and the relay has
\* terminated on its failed send, the runner starts no further provider call
\* and no further tool call.
C5_NoWorkAfterDisconnect ==
    [][ \A r \in Reqs :
          (conn[r].kind = "chat" /\ ~chan[r].cli_open /\ relay[r] = "done")
            => /\ hist'[r].provider_calls = hist[r].provider_calls
               /\ hist'[r].tool_execs = hist[r].tool_execs ]_vars

\* C6: no provider call is made for a request, chat.send or webhook, unless
\* check_budget admitted that request before.
C6_BudgetBeforeProvider ==
    \A r \in Reqs : hist[r].provider_calls > 0 => hist[r].check = "ok"

\* C7: a chat.send refused by check_budget gets exactly one {id, error}
\* response carrying the BudgetExceeded text; no stream, runner or relay is
\* started, no provider call made, no usage recorded, and none of its tasks
\* holds the session lock.
C7_RefusalIsASingleResponse ==
    \A r \in Reqs :
        (conn[r].kind = "chat" /\ hist[r].check = "exceeded") =>
            /\ conn[r].pc = "done"
            /\ Len(conn[r].frames) = 1
            /\ conn[r].frames[1].id = request_id(r)
            /\ conn[r].frames[1].error.text = "token budget exceeded"
            /\ conn[r].frames[1].error.limit
                 = ScopeLimit(counter, conn[r].frames[1].error.scope[1])
            /\ Le(conn[r].frames[1].error.used,
                  ScopeUsed(counter, conn[r].frames[1].error.scope[1], conn[r].key))
                 \/ conn[r].frames[1].error.scope[1] # "session"
            /\ runner[r].pc = "none"
            /\ relay[r] = "none"
            /\ chan[r] = NewChan
            /\ hist[r].sent = <<>>
            /\ hist[r].provider_calls = 0
            /\ hist[r].usage_recorded = 0
            /\ session_locks[conn[r].key] \notin {Task(r, "runner"), Task(r, "conn")}

\* C7 witness: a chat.send refused while another request's runner holds the
\* lock of the same session.
C7_Witness ==
    \E r, q \in Reqs :
        /\ conn[r].kind = "chat"
        /\ hist[r].check = "exceeded"
        /\ q # r
        /\ session_locks[conn[r].key] = Task(q, "runner")

\* The last two events r's runner sent on tx.
EmittedEndsWith(r, a, b) ==
    LET s == hist[r].emitted
    IN  Len(s) > 1 /\ s[Len(s) - 1] = a /\ s[Len(s)] = b

\* C11: run_with_tools always terminates and makes at most MAX_TOOL_ITERATIONS
\* provider calls per invocation; after that many turns that all asked for
\* tools it makes no further call, sends Error("tool-use loop exceeded max
\* iterations") and Done, and returns.
C11_BoundedToolLoop ==
    /\ [](\A r \in Reqs :
            /\ hist[r].provider_calls <= MAX_TOOL_ITERATIONS
            /\ (runner[r].iteration > MAX_TOOL_ITERATIONS /\ runner[r].pc # "emit")
                 => EmittedEndsWith(r, Error("tool-use loop exceeded max iterations"), Done))
    /\ \A r \in Reqs : (runner[r].pc = "loop") ~> (runner[r].pc \in {"post", "done"})

\* The ids of the events of one kind that r's runner sent on tx in provider
\* turn it, in the order sent.
EmittedIds(r, kind, it) ==
    LET sel == SelectSeq(hist[r].emitted, LAMBDA e : e.kind = kind /\ e.v[1] = it)
    IN  [n \in 1..Len(sel) |-> SubSeq(sel[n].v, 1, 2)]

\* The tool_use_ids of a list of tool_result blocks.
ResultIds(blocks) == [n \in 1..Len(blocks) |-> SubSeq(blocks[n], 1, 2)]

\* C12: the history of every provider call after the first extends the one
\* before by exactly one assistant message holding that turn's k >= 1
\* tool_use blocks in emission order and one user message holding k
\* tool_result blocks with the same ids in the same order, the tools having
\* run one at a time in that order.
C12_ToolHistoryPairs ==
    \A r \in Reqs :
        LET calls == hist[r].calls
        IN  \A i \in 1..Len(calls) :
              LET base == Len(calls[1])
              IN  /\ Len(calls[i]) = base + 2 * (i - 1)
                  /\ i > 1 => SubSeq(calls[i], 1, Len(calls[i - 1])) = calls[i - 1]
                  /\ \A j \in 1..(i - 1) :
                        LET assistant == calls[i][base + 2 * j - 1]
                            user == calls[i][base + 2 * j]
                        IN  /\ assistant.role = "assistant"
                            /\ assistant.content # <<>>
                            /\ assistant.content = EmittedIds(r, "tool_use", j)
                            /\ user.role = "user"
                            /\ ResultIds(user.content) = assistant.content
                            /\ EmittedIds(r, "tool_result", j) = assistant.content

\* C12 witness: a provider call made with a history whose assistant message
\* holds two tool_use blocks and whose user message holds their two results.
C12_Witness ==
    \E r \in Reqs :
        /\ Len(hist[r].calls) > 1
        /\ Len(hist[r].calls[2]) = Len(hist[r].calls[1]) + 2
        /\ Len(hist[r].calls[2][Len(hist[r].calls[1]) + 1].content) = 2
        /\ Len(hist[r].calls[2][Len(hist[r].calls[1]) + 2].content) = 2
        /\ hist[r].tool_execs = 2

IsPrefix(s, t) == Len(s) <= Len(t) /\ SubSeq(t, 1, Len(s)) = s

\* (it, n) comes before (it2, n2) in the provider's order of production.
IdBefore(a, b) == a[1] < b[1] \/ (a[1] = b[1] /\ a[2] < b[2])

\* C13: for a chat.send whose client stays connected the client channel gets
\* exactly the events the runner sent, in that order: at any time a prefix of
\* them, all of them once runner and relay are over; Text events in provider
\* order, every Usage before the Done.
C13_ClientGetsWhatRunnerSent ==
    \A r \in Reqs :
        (conn[r].kind = "chat" /\ conn[r].sock_open) =>
            LET s == hist[r].sent
            IN  /\ IsPrefix(s, hist[r].emitted)
                /\ (runner[r].pc = "done" /\ relay[r] \notin {"none", "run"})
                     => s = hist[r].emitted
                /\ \A a, b \in 1..Len(s) :
                      /\ (a < b /\ s[a].kind = "text" /\ s[b].kind = "text")
                           => IdBefore(s[a].v, s[b].v)
                      /\ (s[a].kind = "usage" /\ s[b].kind = "done") => a < b

\* The transport of chat.send r has sent the done frame to its client.
ObservedDone(r) ==
    /\ conn[r].kind = "chat"
    /\ conn[r].pc = "done"
    /\ conn[r].frames # <<>>
    /\ LET f == conn[r].frames[Len(conn[r].frames)]
       IN  "event" \in DOMAIN f /\ f.event = "done"

\* The concatenation, in arrival order, of the data of the text events in s.
TextData(s) ==
    LET sel == SelectSeq(s, LAMBDA e : e.kind = "text")
    IN  [n \in 1..Len(sel) |-> sel[n].v]

\* The contents of the assistant messages of request r in its session's log.
AssistantContents(r) ==
    IF store[conn[r].key] = NoSession THEN <<>>
    ELSE LET sel == SelectSeq(store[conn[r].key].messages,
                              LAMBDA m : m.role = "assistant" /\ m.req = r)
         IN  [n \in 1..Len(sel) |-> sel[n].content]

TurnMessages(r) ==
    << Message_text("user", UserContent(r)),
       Message_text("assistant", TextData(hist[r].sent)) >>

\* The last two messages of a sequence.
LastTwo(s) == IF Len(s) < 2 THEN s ELSE SubSeq(s, Len(s) - 1, Len(s))

\* C15 as stated: for every chat.send turn whose done the transport observed,
\* process_response was called exactly once, with the turn's user message and
\* accumulated text; the call puts the two messages at the end of the
\* session's episodic window, and a turn of that session that assembles its
\* context next gets them.
C15_ProcessResponseOnDone ==
    /\ [](\A r \in Reqs : ObservedDone(r) => hist[r].processed = <<TurnMessages(r)>>)
    /\ [][\A r \in Reqs :
            /\ (ObservedDone(r)' /\ ~ObservedDone(r))
                 => LastTwo(episodic_all(memory, conn[r].key))' = TurnMessages(r)'
            /\ \A q \in Reqs \ {r} :
                 (ObservedDone(r) /\ hist'[q].assembled /\ ~hist[q].assembled
                    /\ conn[q].key = conn[r].key)
                 => LastTwo(hist'[q].context) = TurnMessages(r)]_vars

\* C15 amended: the same for turns whose accumulated text is not empty, on a
\* gateway whose episodic window holds at least one turn; a turn without text
\* makes no process_response call.
C15_ProcessResponseOnText ==
    /\ [](\A r \in Reqs :
            ObservedDone(r) =>
                hist[r].processed = IF TextData(hist[r].sent) = <<>> THEN <<>>
                                    ELSE <<TurnMessages(r)>>)
    /\ [][\A r \in Reqs :
            /\ (ObservedDone(r)' /\ ~ObservedDone(r)
                   /\ TextData(hist'[r].sent) # <<>> /\ memory.window_turns >= 1)
                 => LastTwo(episodic_all(memory, conn[r].key))' = TurnMessages(r)'
            /\ \A q \in Reqs \ {r} :
                 (ObservedDone(r) /\ hist'[q].assembled /\ ~hist[q].assembled
                    /\ conn[q].key = conn[r].key
                    /\ TextData(hist[r].sent) # <<>> /\ memory.window_turns >= 1)
                 => LastTwo(hist'[q].context) = TurnMessages(r)]_vars

\* C15 witness: a chat.send that assembled its context after another turn of
\* its session had completed with text, and got that turn's two messages.
C15_Witness ==
    \E r, q \in Reqs :
        /\ r # q
        /\ ObservedDone(r)
        /\ conn[q].kind = "chat"
        /\ hist[q].assembled
        /\ hist[r].processed # <<>>
        /\ hist[q].context = TurnMessages(r)

(***************************************************************************)
(* Claims about the session router.                                        *)
(***************************************************************************)
RuleTags == <<"binding.peer", "binding.guild", "binding.team", "binding.account",
              "binding.channel">>

\* Binding b satisfies the k-th rule for request q.
RuleHolds(k, b, q) ==
    CASE k = 1 -> q.peer # None /\ b.peer_id = q.peer
      [] k = 2 -> q.guild # None /\ b.guild_id = q.guild
      [] k = 3 -> q.team # None /\ b.team_id = q.team
      [] k = 4 -> b.account_id = <<q.account>> /\ b.peer_id = <<>> /\ b.guild_id = <<>>
      [] k = 5 -> b.channel = <<q.channel>> /\ b.account_id = <<>> /\ b.peer_id = <<>>

Min(S) == CHOOSE x \in S : \A y \in S : x <= y

\* C16: resolve returns the agent of the first-inserted binding among those
\* satisfying the highest-priority satisfied rule (peer > guild > team >
\* account > channel) and names that rule; with no rule satisfied it returns
\* agent "default", matched_by "default".
C16_HighestPriorityRuleWins ==
    route_last.op = "resolve" =>
        LET bs == route_last.before.bindings
            q == route_last.q
            sat(k) == {i \in 1..Len(bs) : RuleHolds(k, bs[i], q)}
            K == {k \in 1..5 : sat(k) # {}}
        IN  IF K = {}
            THEN /\ route_last.route.agent_id = <<"d", "e", "f", "a", "u", "l", "t">>
                 /\ route_last.route.matched_by = "default"
            ELSE /\ route_last.route.agent_id = bs[Min(sat(Min(K)))].agent_id
                 /\ route_last.route.matched_by = RuleTags[Min(K)]

\* C16 witness: a request that satisfies all five rules, on a router whose
\* channel binding was inserted first and whose peer binding last.
C16_Witness ==
    /\ route_last.op = "resolve"
    /\ route_last.before.bindings = <<ByChannel, ByAccount, ByTeam, ByGuild, ByPeer>>
    /\ route_last.q = [channel |-> <<"t">>, account |-> <<"a">>, peer |-> <<<<"p">>>>,
                       guild |-> <<<<"g">>>>, team |-> <<<<"m">>>>]
    /\ route_last.route.matched_by = "binding.peer"

\* Every field binding b specifies equals the corresponding input of q.
FieldsAgree(b, q) ==
    /\ b.channel # <<>> => b.channel = <<q.channel>>
    /\ b.account_id # <<>> => b.account_id = <<q.account>>
    /\ b.peer_id # <<>> => b.peer_id = q.peer
    /\ b.guild_id # <<>> => b.guild_id = q.guild
    /\ b.team_id # <<>> => b.team_id = q.team

\* C17: the binding whose agent resolve returns agrees with the request on
\* every field it specifies; in particular a binding naming peer_id p is not
\* selected for a request from another peer.
C17_BindingIsAPattern ==
    (route_last.op = "resolve" /\ route_last.route.matched_by # "default") =>
        \A i \in 1..Len(route_last.before.bindings) :
            route_last.before.bindings[i].agent_id = route_last.route.agent_id
                => FieldsAgree(route_last.before.bindings[i], route_last.q)

\* C18: the route depends on the binding list and the five inputs only: a
\* router that has served calls returns what one with the same bindings that
\* has served none returns.
C18_RouteIsAFunctionOfBindings ==
    route_last.op = "resolve" =>
        route_last.route
          = resolve([route_last.before EXCEPT !.sessions = [k \in {} |-> 0]],
                    route_last.q).route

\* C18 witness: a call routed by a channel binding to a session the router
\* had already counted.
C18_Witness ==
    /\ route_last.op = "resolve"
    /\ route_last.route.session_key \in DOMAIN route_last.before.sessions
    /\ route_last.route.matched_by = "binding.channel"

\* C19: the session key is agent_id:channel:account:peer with "main" for an
\* absent peer; session_count() is the number of distinct keys returned so
\* far; it never decreases, and a key returned before creates no session.
C19_SessionKeysCounted ==
    /\ [](route_last.op = "resolve" =>
            /\ route_last.route.session_key
                 = route_last.route.agent_id \o <<":">> \o route_last.q.channel \o <<":">>
                     \o route_last.q.account \o <<":">>
                     \o (IF route_last.q.peer = <<>> THEN <<"m", "a", "i", "n">>
                         ELSE route_last.q.peer[1])
            /\ session_count(router) = Cardinality(route_last.keys))
    /\ [][/\ session_count(router)' >= session_count(router)
          /\ (route_last'.op = "resolve" /\ route_last'.route.session_key \in route_last.keys)
               => session_count(router)' = session_count(router)]_vars

\* C19 witness: the same peerless request resolved twice: one session, its
\* key ending in "main".
C19_Witness ==
    /\ route_last.op = "resolve"
    /\ route_last.q.peer = <<>>
    /\ session_count(router) = 1
    /\ router.sessions[route_last.route.session_key] = 2

(***************************************************************************)
(* Claims about semantic memory.                                           *)
(***************************************************************************)
\* The entities of (subject, predicate), in the order they were stored.
PairHistory(sem, subject, predicate) ==
    SelectSeq(sem.entities[subject], LAMBDA e : e.predicate = predicate)

\* C20: on an enabled store, for every (subject, predicate) only the entity
\* stored last is active, every earlier one has superseded_at set and
\* superseded_by = id of the one stored right after it, query returns
\* exactly the last one, and a store call removes no entity.
C20_OneActivePerPair ==
    /\ [](memory.semantic.enabled =>
            \A subject \in Subjects, predicate \in Predicates :
                LET E == PairHistory(memory.semantic, subject, predicate)
                IN  /\ \A i \in 1..Len(E) :
                          IF i = Len(E)
                          THEN E[i].superseded_at = <<>>
                          ELSE /\ E[i].superseded_at # <<>>
                               /\ E[i].superseded_by = <<E[i + 1].id>>
                    /\ semantic_query(memory.semantic, subject, predicate)
                         = IF E = <<>> THEN <<>> ELSE <<E[Len(E)]>>)
    /\ [][\A subject \in Subjects :
            /\ Len(memory.semantic.entities[subject]')
                 >= Len(memory.semantic.entities[subject])
            /\ \A i \in 1..Len(memory.semantic.entities[subject]) :
                 memory.semantic.entities[subject][i].id'
                   = memory.semantic.entities[subject][i].id]_vars

\* C20 witness: one pair stored three times and the store holds three
\* entities, two of them superseded.
C20_Witness ==
    /\ memory.semantic.enabled
    /\ \E subject \in Subjects, predicate \in Predicates :
         /\ Len(PairHistory(memory.semantic, subject, predicate)) = 3
         /\ Len(semantic_query(memory.semantic, subject, predicate)) = 1

(***************************************************************************)
(* Claims about episodic memory.                                           *)
(***************************************************************************)
\* The last n elements of sequence q.
Tail_n(q, n) == SubSeq(q, Len(q) - n + 1, Len(q))

\* C21: with window_turns = N, after k appends for a session its buffer is
\* the last min(k, 2N) appended messages in append order (so at most 2N),
\* and an append for one key leaves every other key's buffer as it was.
C21_WindowHoldsLastMessages ==
    /\ [](\A key \in Sessions :
            LET k == Len(journal[key])
                cap == 2 * memory.window_turns
                n == IF k < cap THEN k ELSE cap
            IN  /\ episodic_all(memory, key) = Tail_n(journal[key], n)
                /\ Len(episodic_all(memory, key)) <= cap)
    /\ [][\A key \in Sessions :
            journal[key]' = journal[key]
                => episodic_all(memory, key)' = episodic_all(memory, key)]_vars

\* C21 witness: window of 2 turns, five messages appended for s1 (the first
\* has left the buffer) and one for s2.
C21_Witness ==
    /\ memory.window_turns = 2
    /\ Len(journal["s1"]) = 5
    /\ Len(episodic_all(memory, "s1")) = 4
    /\ episodic_all(memory, "s1")[1] # journal["s1"][1]
    /\ Len(episodic_all(memory, "s2")) = 1

(***************************************************************************)
(* Claims about context assembly.                                          *)
(***************************************************************************)
\* The query's words: alphanumeric chars only, lowercased.
QueryWords(query) ==
    LET words == split_whitespace(query)
    IN  {to_lowercase(SelectSeq(words[i], is_alphanumeric)) : i \in 1..Len(words)}

\* The active entities of a store.
ActiveEntities(sem) ==
    UNION {{sem.entities[s][i] : i \in {j \in 1..Len(sem.entities[s]) : sem.entities[s][j].superseded_at = <<>>}} : s \in Subjects}

\* The shape the context of the last assemble_context call must have, a
\* query word counting as a keyword when Long(word).
ContextShape(Long(_)) ==
    journal.op = "assemble" =>
        LET m == journal.before
            ctx == journal.context
            soul == memory.soul[journal.agent_id]
            soul_part == IF soul # <<>> THEN <<Message_text("system", soul[1])>> ELSE <<>>
            recent == m.episodic[journal.session_key]
            k == Len(ctx) - Len(soul_part) - Len(recent)
            matched == {e \in ActiveEntities(m.semantic) :
                          \E w \in QueryWords(journal.query) : Long(w) /\ keyword_hits(e, w)}
        IN  /\ k \in {0, 1}
            /\ SubSeq(ctx, 1, Len(soul_part)) = soul_part
            /\ SubSeq(ctx, Len(ctx) - Len(recent) + 1, Len(ctx)) = recent
            /\ k = 1 =>
                 LET msg == ctx[Len(soul_part) + 1]
                     lines == split_from(msg.content, {"\n"}, Len(KnownFacts) + 1)
                 IN  /\ msg.role = "system"
                     /\ SubSeq(msg.content, 1, Len(KnownFacts)) = KnownFacts
                     /\ Len(lines) \in 1..10
                     /\ \A i \in 1..Len(lines) : \E e \in matched : lines[i] = format_fact(e)
                     /\ m.semantic.enabled
            /\ memory.episodic = m.episodic
            /\ memory.semantic = m.semantic

\* C22: assemble_context returns the soul message if a soul is loaded, then
\* at most one "Known facts" message of at most 10 active entities, present
\* only when the store is enabled and a query word longer than 2 characters
\* matches an active entity, then the episodic buffer; the episodic buffer
\* and the semantic store are left as they were.
C22_ContextLayout == ContextShape(LAMBDA w : Len(w) > 2)

(***************************************************************************)
(* Claims about the WebSocket connection.                                  *)
(***************************************************************************)
\* Frame f is a text frame carrying the configured token.
CarriesToken(f) ==
    /\ f.type = "text"
    /\ f.body.json = "object"
    /\ "token" \in DOMAIN f.body.fields
    /\ f.body.fields.token.json = "string"
    /\ f.body.fields.token.s = env.token[1]

\* Connection r has entered handle_chat_send or answered a frame read in
\* the message loop.
ServedRpc(r) ==
    \/ conn[r].kind # "none"
    \/ \E i \in 1..Len(conn[r].frames) : "id" \in DOMAIN conn[r].frames[i]

\* C23: with a token configured, hello is sent and RPC frames are processed
\* only after a first text frame carrying that token; any other first frame
\* is answered by exactly one auth_failed frame (code 4001), the connection
\* is closed and nothing else is emitted.  With no token configured the
\* hello is sent before anything is read.
C23_AuthBeforeAnything ==
    \A r \in Reqs :
        IF env.token # <<>>
        THEN /\ journal[r] = <<>> => (conn[r].frames = <<>> /\ ~ServedRpc(r))
             /\ (journal[r] # <<>> /\ CarriesToken(journal[r][1]))
                  => conn[r].frames[1] = Hello
             /\ (journal[r] # <<>> /\ ~CarriesToken(journal[r][1]))
                  => /\ conn[r].frames
                          = IF journal[r][1].type = "none" THEN <<>> ELSE <<AuthFailed>>
                     /\ conn[r].pc = "closed"
                     /\ ~conn[r].sock_open
                     /\ Len(journal[r]) = 1
                     /\ ~ServedRpc(r)
        ELSE (conn[r].pc # "accept" \/ journal[r] # <<>>)
                  => (conn[r].frames # <<>> /\ conn[r].frames[1] = Hello)

\* C23 witness: a first frame whose token is the configured one with a char
\* appended has been refused.
C23_Witness ==
    \E r \in Reqs :
        /\ env.token = <<Secret>>
        /\ journal[r] = <<TextFrame(JsonObject([token |-> JsonString(<<"s", "3", "3">>)]))>>
        /\ conn[r].frames = <<AuthFailed>>

\* The decimal rendering of a number below 1000.
Decimal(n) ==
    LET d(k) == <<"0", "1", "2", "3", "4", "5", "6", "7", "8", "9">>[k + 1]
    IN  IF n < 10 THEN <<d(n)>>
        ELSE IF n < 100 THEN <<d(n \div 10), d(n % 10)>>
        ELSE <<d(n \div 100), d((n \div 10) % 10), d(n % 10)>>

\* The id of a request, rendered as a string.
Rendered(id) == IF id.variant = "String" THEN id.value ELSE Decimal(id.value)

\* Text frame f parses as a request: an object with a string or numeric id
\* and a string method.
ParsesAsRequest(f) ==
    /\ f.body.json = "object"
    /\ {"id", "method"} \subseteq DOMAIN f.body.fields
    /\ f.body.fields.id.json \in {"string", "number"}
    /\ f.body.fields.method.json = "string"

IdOfFrame(f) ==
    IF f.body.fields.id.json = "string" THEN RpcId_String(f.body.fields.id.s)
    ELSE RpcId_Number(f.body.fields.id.n)

KnownMethods == {"ping", "status", "chat.send", "plugin.list"}

\* resp is the one answer text frame f must get.
Answers(f, resp) ==
    IF ~ParsesAsRequest(f)
    THEN /\ resp.id = <<"0">>
         /\ "error" \in DOMAIN resp
         /\ resp.error.text = "parse error: "
    ELSE /\ resp.id = Rendered(IdOfFrame(f))
         /\ f.body.fields.method.s \notin KnownMethods
              => /\ "error" \in DOMAIN resp
                 /\ resp.error.text = "unknown method: "
                 /\ resp.error.method = f.body.fields.method.s

\* The frames connection r read in its message loop.
LoopRead(r) ==
    IF env.token # <<>> /\ journal[r] # <<>> THEN Tail(journal[r]) ELSE journal[r]

\* C24: every answer to a parsed request carries its id rendered as a
\* string; a frame that does not parse gets one response with id "0" and a
\* "parse error: " error; an unknown method gets one error response naming
\* it; in both error cases router, sessions, memory and budget stay as they
\* were and the connection goes on reading.
C24_AnswersCarryTheId ==
    /\ [](\A r \in Reqs :
            (conn[r].frames # <<>> /\ conn[r].frames[1] = Hello) =>
                LET texts == SelectSeq(LoopRead(r), LAMBDA f : f.type = "text")
                    frames == conn[r].frames
                IN  /\ Len(frames) >= 1 + Len(texts)
                    /\ \A k \in 1..Len(texts) : Answers(texts[k], frames[1 + k])
                    /\ \A j \in (2 + Len(texts))..Len(frames) :
                           frames[j].id = Rendered(RpcIdOf(r)))
    /\ [][\A r \in Reqs :
            (/\ conn[r].pc = "new"
             /\ Len(journal'[r]) = Len(journal[r]) + 1
             /\ journal'[r][Len(journal'[r])].type = "text"
             /\ \/ ~ParsesAsRequest(journal'[r][Len(journal'[r])])
                \/ journal'[r][Len(journal'[r])].body.fields.method.s \notin KnownMethods)
            => /\ Len(conn'[r].frames) = Len(conn[r].frames) + 1
               /\ <<router, store, memory, counter, session_locks>>'
                    = <<router, store, memory, counter, session_locks>>
               /\ conn'[r].pc = "new"
               /\ conn'[r].sock_open]_vars

\* C24 witness: a connection answered malformed text, then an unknown method
\* with a numeric id, then streamed a chat.send with a numeric id.
C24_Witness ==
    /\ Len(journal["r2"]) = 2
    /\ journal["r2"][1] = TextFrame(JsonMalformed)
    /\ Len(conn["r2"].frames) >= 4
    /\ conn["r2"].frames[2].id = <<"0">>
    /\ conn["r2"].frames[3].id = <<"1", "0", "5">>
    /\ conn["r2"].frames[4].id = <<"2", "0">>

(***************************************************************************)
(* sandbox/capabilities.rs, sandbox/mod.rs: the plugin host.  What goes in *)
(* and out of a plugin is bytes, written as the chars they spell; "xFF"    *)
(* is a byte that is not UTF-8.                                            *)
(***************************************************************************)
JsonBool(b) == [json |-> "bool", b |-> b]

\* Value::as_bool
as_bool(v) == IF v.json = "bool" THEN <<v.b>> ELSE <<>>

\* The keys of the objects met in plugin traffic, in the order serde_json
\* writes them (its map is sorted by key).
Keys == <<"body", "content", "is_error", "text", "url">>
KeyChars ==
    [body |-> <<"b", "o", "d", "y">>,
     content |-> <<"c", "o", "n", "t", "e", "n", "t">>,
     is_error |-> <<"i", "s", "_", "e", "r", "r", "o", "r">>,
     text |-> <<"t", "e", "x", "t">>,
     url |-> <<"u", "r", "l">>]

\* The escapes of a JSON string.
RECURSIVE escape(_)
escape(chars) ==
    IF chars = <<>> THEN <<>>
    ELSE (IF Head(chars) \in {"\"", "\\"} THEN <<"\\", Head(chars)>> ELSE <<Head(chars)>>)
         \o escape(Tail(chars))

\* serde_json::to_vec
RECURSIVE to_vec(_)
to_vec(v) ==
    CASE v.json = "null" -> <<"n", "u", "l", "l">>
      [] v.json = "bool" -> IF v.b THEN <<"t", "r", "u", "e">> ELSE <<"f", "a", "l", "s", "e">>
      [] v.json = "number" -> Number_to_string(v.n)
      [] v.json = "string" -> <<"\"">> \o escape(v.s) \o <<"\"">>
      [] v.json = "object" ->
            LET present == SelectSeq(Keys, LAMBDA k : k \in DOMAIN v.fields)
                member(k) == <<"\"">> \o KeyChars[k] \o <<"\"", ":">> \o to_vec(v.fields[k])
            IN  <<"{">> \o join([i \in 1..Len(present) |-> member(present[i])], <<",">>)
                \o <<"}">>

\* String::from_utf8_lossy: what is not UTF-8 becomes U+FFFD.
from_utf8_lossy(bytes) ==
    [i \in 1..Len(bytes) |-> IF bytes[i] = "xFF" THEN "U+FFFD" ELSE bytes[i]]

\* Capability
Capability_Http(host) == [variant |-> "Http", value |-> host]
Capability_Store(name) == [variant |-> "Store", value |-> name]
Capability_HostFunction(name) == [variant |-> "HostFunction", value |-> name]

\* capabilities::allowed_hosts: the Http grants, in order.
allowed_hosts_AnyGrant(caps) == [i \in 1..Len(caps) |-> caps[i].value]
allowed_hosts(caps) ==
    LET http == SelectSeq(caps, LAMBDA c : c.variant = "Http")
    IN  [i \in 1..Len(http) |-> http[i].value]

\* The first position of s from `from` on that holds one of cs, or
\* Len(s) + 1.
find(s, cs, from) ==
    LET at == {i \in from..Len(s) : s[i] \in cs}
    IN  IF at = {} THEN Len(s) + 1 ELSE CHOOSE i \in at : \A j \in at : i <= j

\* The host of a URL is written in lower case.
domain_to_ascii(host) == [i \in 1..Len(host) |-> IF host[i] = "A" THEN "a" ELSE host[i]]

\* url::Url::parse(url).ok().and_then(|u| u.host_str()): a URL needs a
\* scheme; the authority runs from behind the slashes to the path, query or
\* fragment; the host is what is left of it without the userinfo (up to the
\* last @) and the port.
host_str(url) ==
    LET colon == find(url, {":"}, 1)
        scheme == SubSeq(url, 1, colon - 1)
        special == scheme \in {<<"h", "t", "t", "p">>, <<"h", "t", "t", "p", "s">>}
        slashes == {i \in (colon + 1)..Len(url) :
                        \A j \in (colon + 1)..i : url[j] \in {"/", "\\"}}
        start == colon + 1 + Cardinality(slashes)
        stop == find(url, {"/", "?", "#", "\\"}, start)
        authority == SubSeq(url, start, stop - 1)
        ats == {i \in 1..Len(authority) : authority[i] = "@"}
        last_at == IF ats = {} THEN 0 ELSE CHOOSE i \in ats : \A j \in ats : j <= i
        hostport == SubSeq(authority, last_at + 1, Len(authority))
        host == SubSeq(hostport, 1, find(hostport, {":"}, 1) - 1)
    IN  IF colon > Len(url) \/ scheme = <<>>
           \/ \E i \in 1..Len(scheme) : scheme[i] \in {"/", ".", "@", "?", "#"}
        THEN None
        ELSE IF ~special /\ Cardinality(slashes) < 2 THEN None
        ELSE IF host = <<>> THEN None
        ELSE Some(domain_to_ascii(host))

\* A WebAssembly module, by what its code does when one of its exports is
\* called: "reply" returns the text member of its input, "says" returns
\* its own bytes, "counter" counts the calls in its linear memory and
\* returns the count (it traps, after counting, on the input null),
\* "clock" returns the reading of the WASI clock, "spin" never returns.
Module(code, exports, bytes) == [code |-> code, exports |-> exports, bytes |-> bytes]

\* The linear memory a module's instance starts with.
FreshMemory == [count |-> 0]

DEFAULT_TIMEOUT == 30

\* register: the manifest built for a module and a capability list.
Manifest(wasm, caps) ==
    [wasm |-> wasm, allowed_hosts |-> allowed_hosts(caps), timeout |-> Some(DEFAULT_TIMEOUT)]

PluginEntry(name, wasm, plugin_type, caps) ==
    [name |-> name, manifest |-> Manifest(wasm, caps), plugin_type |-> plugin_type,
     capabilities |-> caps]
NoEntry == [name |-> ""]

\* anyhow::Result
CallOk(v) == [ok |-> TRUE, value |-> v]
CallErr(e) == [ok |-> FALSE, error |-> e]

\* Plugin::new(manifest, [], true): an instance of the manifest's module.
\* residue is the memory the plugin's last instance was dropped with.
Plugin_new_Pooled(manifest, residue) ==
    [module |-> manifest.wasm, memory |-> residue, timeout |-> manifest.timeout]
Plugin_new(manifest, residue) ==
    [module |-> manifest.wasm, memory |-> FreshMemory, timeout |-> manifest.timeout]

Returned(bytes, mem) == [outcome |-> "returned", output |-> bytes, memory |-> mem]
Failed(why, mem) == [outcome |-> why, output |-> <<>>, memory |-> mem]

\* The text member of a "reply" module's input.
TextOf(v) ==
    IF json_get(v, "text") # <<>> /\ as_str(json_get(v, "text")[1]) # <<>>
    THEN as_str(json_get(v, "text")[1])[1] ELSE <<>>

\* Plugin::call: run an export of the instance on the input bytes, which
\* spell the document doc (JsonMalformed when they spell none); clock is
\* what the WASI clock reads.
plugin_call(instance, function, input, doc, clock) ==
    LET code == instance.module.code
        mem == instance.memory
        counted == [count |-> mem.count + 1]
    IN  IF function \notin instance.module.exports
        THEN Failed("function not found", mem)
        ELSE CASE code = "reply" -> Returned(TextOf(doc), mem)
               [] code = "says" -> Returned(instance.module.bytes, mem)
               [] code = "counter" ->
                    IF doc = JsonNull THEN Failed("wasm trap", counted)
                    ELSE Returned(Number_to_string(counted.count), counted)
               [] code = "clock" -> Returned(Number_to_string(clock), mem)
               [] code = "spin" ->
                    IF instance.timeout # None THEN Failed("timeout", mem)
                    ELSE Failed("hung", mem)

\* PluginHost::call, from `plugin.call(function, input)?` on.
call_result(run) ==
    IF run.outcome = "returned" THEN CallOk(run.output) ELSE CallErr(<<run.outcome>>)

\* ToolCallResult
ToolCallResult(content, is_error) == [content |-> content, is_error |-> is_error]

\* PluginHost::call_tool, from the result of call on; v is what the output
\* parses to.
tool_result_NoFallback(result, v) ==
    IF ~result.ok
    THEN ToolCallResult(<<"tool execution failed: ">> \o result.error, TRUE)
    ELSE IF v = JsonMalformed
    THEN ToolCallResult(from_utf8_lossy(result.value), FALSE)
    ELSE LET c == json_get(v, "content")
             e == json_get(v, "is_error")
         IN  ToolCallResult(IF c # <<>> /\ as_str(c[1]) # <<>> THEN as_str(c[1])[1] ELSE <<>>,
                            IF e # <<>> /\ as_bool(e[1]) # <<>> THEN as_bool(e[1])[1] ELSE FALSE)
tool_result(result, v) ==
    IF ~result.ok
    THEN ToolCallResult(<<"tool execution failed: ">> \o result.error, TRUE)
    ELSE IF v = JsonMalformed
    THEN ToolCallResult(from_utf8_lossy(result.value), FALSE)
    ELSE LET c == json_get(v, "content")
             e == json_get(v, "is_error")
             content == IF c # <<>> /\ as_str(c[1]) # <<>> THEN as_str(c[1])[1] ELSE <<>>
             is_error == IF e # <<>> /\ as_bool(e[1]) # <<>> THEN as_bool(e[1])[1] ELSE FALSE
         IN  IF content = <<>>
             THEN ToolCallResult(from_utf8_lossy(result.value), is_error)
             ELSE ToolCallResult(content, is_error)

\* PluginHost::call_channel_parse, from the result of call on.
parse_result(result, v) ==
    IF ~result.ok THEN result
    ELSE IF v = JsonMalformed
    THEN CallErr(<<"channel adapter returned invalid JSON">>)
    ELSE CallOk(v)

\* PluginHost::allowed_hosts
PluginHost_allowed_hosts(plugins, plugin_name) ==
    IF plugins[plugin_name] = NoEntry THEN <<>>
    ELSE allowed_hosts(plugins[plugin_name].capabilities)

\* PluginHost::find_channel_adapter
find_channel_adapter(plugins, channel) ==
    IF channel \in DOMAIN plugins /\ plugins[channel] # NoEntry
       /\ plugins[channel].plugin_type = "ChannelAdapter" /\ plugins[channel].name = channel
    THEN Some(channel) ELSE None

(***************************************************************************)
(* SpecPlugins: a plugin host with its plugins registered, called once by  *)
(* each of two tasks, one after the other or both at once.                 *)
(***************************************************************************)
\* What the WASI clock reads in the course of a run.
ClockReadings == {0, 1}

OkText == <<"o", "k">>
Oops == <<"o", "o", "p", "s">>
NotUtf8 == <<"{", "xFF">>
EmptyObject == JsonObject(<<>>)

\* What the output of a tool may spell.
ToolDocs ==
    { JsonObject([content |-> JsonString(OkText), is_error |-> JsonBool(TRUE)]),
      JsonObject([content |-> JsonString(OkText), is_error |-> JsonBool(FALSE)]),
      JsonObject([content |-> JsonString(OkText)]),
      JsonObject([content |-> JsonString(<<>>), is_error |-> JsonBool(TRUE)]),
      JsonObject([is_error |-> JsonBool(TRUE)]),
      JsonObject([content |-> JsonNumber(7), is_error |-> JsonString(OkText)]),
      JsonString(OkText) }

\* The inputs that make a "reply" module return each of them, text that
\* is no JSON, or nothing.
ReplyInputs ==
    {JsonObject([text |-> JsonString(to_vec(d))]) : d \in ToolDocs}
    \cup {JsonObject([text |-> JsonString(Oops)]), EmptyObject}

\* Every document spelt by some bytes of the plugin traffic.
ToolDocuments ==
    ToolDocs \cup ReplyInputs \cup {JsonNull} \cup {JsonNumber(n) : n \in 0..9}

AllExports == {"handle_tool_call", "parse_incoming", "format_outgoing"}
PluginNames == {"reply", "count", "clock", "spin", "raw", "nope"}

\* The host after the registrations of the configuration: "nope" is not
\* registered.
Registered ==
    [n \in PluginNames |->
        CASE n = "reply" -> PluginEntry(n, Module("reply", AllExports, <<>>), "Tool", <<>>)
          [] n = "count" -> PluginEntry(n, Module("counter", AllExports, <<>>), "Tool", <<>>)
          [] n = "clock" ->
                PluginEntry(n, Module("clock", {"handle_tool_call"}, <<>>), "Tool", <<>>)
          [] n = "spin" ->
                PluginEntry(n, Module("spin", {"handle_tool_call", "format_outgoing"}, <<>>),
                            "Tool", <<>>)
          [] n = "raw" ->
                PluginEntry(n, Module("says", {"handle_tool_call"}, NotUtf8), "Tool", <<>>)
          [] OTHER -> NoEntry]

\* A call of the host's interface: which function of it, on which plugin,
\* with which input bytes (call_tool and call_channel_format serialize a
\* document, call_channel_parse hands the payload on).
PluginCall(api, plugin, input) == [api |-> api, plugin |-> plugin, input |-> input]
PluginCalls ==
    {PluginCall("call_tool", "reply", to_vec(v)) : v \in ReplyInputs}
    \cup {PluginCall(api, "count", to_vec(v)) :
            api \in {"call_tool", "call_channel_parse", "call_channel_format"},
            v \in {JsonNull, EmptyObject}}
    \cup {PluginCall("call_tool", n, to_vec(EmptyObject)) :
            n \in {"clock", "spin", "raw", "nope"}}
    \cup {PluginCall("call_channel_parse", "reply", to_vec(v)) :
            v \in {JsonObject([text |-> JsonString(Oops)]),
                   JsonObject([text |-> JsonString(to_vec(JsonString(OkText)))])}}
    \cup {PluginCall("call_channel_parse", n, Oops) : n \in {"clock", "nope"}}
    \cup {PluginCall("call_channel_format", n, to_vec(EmptyObject)) : n \in {"reply", "spin"}}

\* The export each function of the interface calls.
ExportOf(api) ==
    CASE api = "call_tool" -> "handle_tool_call"
      [] api = "call_channel_parse" -> "parse_incoming"
      [] api = "call_channel_format" -> "format_outgoing"

\* serde_json::from_slice over the documents docs: the document the bytes
\* spell, if any.
from_slice(bytes, docs) ==
    IF \E d \in docs : to_vec(d) = bytes
    THEN CHOOSE d \in docs : to_vec(d) = bytes
    ELSE JsonMalformed

\* call_tool, call_channel_parse, call_channel_format: what each makes of
\* the result of call.
Shaped(api, result, docs) ==
    LET v == IF result.ok THEN from_slice(result.value, docs) ELSE JsonMalformed
    IN  CASE api = "call_tool" -> tool_result(result, v)
          [] api = "call_channel_parse" -> parse_result(result, v)
          [] api = "call_channel_format" -> result

PluginTasks == {"t1", "t2"}
IdleTask == [pc |-> "idle"]
DoneTask == [pc |-> "done"]

\* A finished call: what was asked, what the environment gave the call
\* (whether the instance could be created, the reading of the clock), the
\* memory its instance started with, whether another call was in flight
\* meanwhile, what call returned and the result made of it.
Finished(c, instantiated, clock, started, overlap, returned, docs) ==
    [call |-> c, instantiated |-> instantiated, clock |-> clock, started |-> started,
     overlap |-> overlap, returned |-> returned, result |-> Shaped(c.api, returned, docs)]

PluginsInit ==
    /\ journal = [plugins |-> Registered, clock |-> 0,
                  task |-> [t \in PluginTasks |-> IdleTask],
                  dropped |-> [n \in PluginNames |-> FreshMemory],
                  calls |-> <<>>]
    /\ route_last = NoRoute
    /\ router = SessionRouter_new
    /\ now = 1
    /\ overflow_checks = FALSE
    /\ counter = TokenCounter_new(Budget(NoLimit, NoLimit, NoLimit), Times[now])
    /\ meter_last = NoCall
    /\ ncalls = 0
    /\ GatewayIdle
    /\ memory = MemoryEngine_new(default_episodic_window, TRUE)
    /\ env = NoEnv

InFlight == {t \in PluginTasks : journal.task[t].pc = "running"}

\* PluginHost::call up to Plugin::new: the lookup of the entry and the
\* creation of the instance, which the environment may refuse.
PluginCallBegin(t) ==
    /\ journal.task[t].pc = "idle"
    /\ \E c \in PluginCalls, instantiates \in BOOLEAN :
         LET entry == journal.plugins[c.plugin]
             refused(e) ==
                 [journal EXCEPT !.calls =
                     Append(@, Finished(c, FALSE, journal.clock, FreshMemory, InFlight # {},
                                        CallErr(e), ToolDocuments))]
             failed(e) == [refused(e) EXCEPT !.task[t] = DoneTask]
         IN  journal' =
                 IF entry = NoEntry THEN failed(<<"plugin not found: ", c.plugin>>)
                 ELSE IF ~instantiates THEN failed(<<"instantiation failed">>)
                 ELSE [journal EXCEPT
                         !.task = [u \in PluginTasks |->
                                     IF u = t
                                     THEN [pc |-> "running", call |-> c,
                                           instance |-> Plugin_new(entry.manifest,
                                                                   journal.dropped[c.plugin]),
                                           overlap |-> InFlight # {}]
                                     ELSE IF u \in InFlight
                                     THEN [journal.task[u] EXCEPT !.overlap = TRUE]
                                     ELSE journal.task[u]]]
    /\ UNCHANGED <<meter_vars, gateway_vars, router, route_last>>

\* PluginHost::call from plugin.call on, and what the function called makes
\* of the result; the instance is dropped.
PluginCallRun(t) ==
    /\ journal.task[t].pc = "running"
    /\ LET task == journal.task[t]
           c == task.call
           run == plugin_call(task.instance, ExportOf(c.api), c.input,
                              from_slice(c.input, ToolDocuments), journal.clock)
       IN  journal' = [journal EXCEPT
                         !.task[t] = DoneTask,
                         !.dropped[c.plugin] = run.memory,
                         !.calls = Append(@, Finished(c, TRUE, journal.clock,
                                                      task.instance.memory, task.overlap,
                                                      call_result(run), ToolDocuments))]
    /\ UNCHANGED <<meter_vars, gateway_vars, router, route_last>>

\* The WASI clock moves on.
PluginClockTick ==
    /\ journal.clock + 1 \in ClockReadings
    /\ journal' = [journal EXCEPT !.clock = @ + 1]
    /\ UNCHANGED <<meter_vars, gateway_vars, router, route_last>>

PluginsNext ==
    \/ \E t \in PluginTasks : PluginCallBegin(t) \/ PluginCallRun(t)
    \/ PluginClockTick

SpecPlugins == PluginsInit /\ [][PluginsNext]_vars

(***************************************************************************)
(* Claims about the plugin host                                            *)
(***************************************************************************)
\* C26, as stated: two calls that ran the same function of the interface on
\* the same plugin with the same input have the same result.
C26_ResultDependsOnEntryAndInput ==
    \A i, j \in 1..Len(journal.calls) :
        /\ journal.calls[i].call = journal.calls[j].call
        /\ journal.calls[i].instantiated /\ journal.calls[j].instantiated
        => journal.calls[i].result = journal.calls[j].result

\* C26: every call runs on an instance of its own that starts from the
\* module's fresh memory, whatever earlier or concurrent calls did (a trap
\* included), and two calls of the same function on the same plugin with
\* the same input that the environment treats alike (the instance could be
\* created or not, the clock reads the same) have the same result.
C26_FreshInstancePerCall ==
    /\ \A t \in InFlight : journal.task[t].instance.memory = FreshMemory
    /\ \A i \in 1..Len(journal.calls) : journal.calls[i].started = FreshMemory
    /\ \A i, j \in 1..Len(journal.calls) :
         /\ journal.calls[i].call = journal.calls[j].call
         /\ journal.calls[i].instantiated = journal.calls[j].instantiated
         /\ journal.calls[i].clock = journal.calls[j].clock
         => journal.calls[i].result = journal.calls[j].result

\* A call of the counting plugin trapped after counting; a second call of
\* it, begun while the first was in flight, returned the count 1.
C26_Witness ==
    /\ Len(journal.calls) = 2
    /\ journal.calls[1].call = PluginCall("call_tool", "count", to_vec(JsonNull))
    /\ journal.calls[1].returned = CallErr(<<"wasm trap">>)
    /\ journal.dropped["count"].count = 1
    /\ journal.calls[2].call = PluginCall("call_tool", "count", to_vec(EmptyObject))
    /\ journal.calls[2].overlap
    /\ journal.calls[2].result = ToolCallResult(<<"1">>, FALSE)

\* The finished calls of call_tool.
ToolCalls == {i \in 1..Len(journal.calls) : journal.calls[i].call.api = "call_tool"}

\* The string v has under "content": empty when there is none.
ContentOf(v) ==
    IF v.json = "object" /\ "content" \in DOMAIN v.fields /\ v.fields.content.json = "string"
    THEN v.fields.content.s ELSE <<>>
HasEmptyOrNoContent(v) ==
    \/ v.json # "object"
    \/ "content" \notin DOMAIN v.fields
    \/ v.fields.content = JsonString(<<>>)

\* C27: call_tool always returns a ToolCallResult: an error of call (unknown
\* plugin, failed instantiation, trap, timeout) gives is_error = TRUE and a
\* message; output that is not JSON gives the raw output and is_error =
\* FALSE; JSON output with a non-empty string content gives that content and
\* its is_error (FALSE when absent); JSON output with empty or no content
\* gives the raw output as content.
C27_ToolResultShape ==
    \A i \in ToolCalls :
        LET f == journal.calls[i]
            v == from_slice(f.returned.value, ToolDocuments)
        IN  /\ DOMAIN f.result = {"content", "is_error"}
            /\ f.result.is_error \in BOOLEAN
            /\ ~f.returned.ok => f.result.is_error /\ f.result.content # <<>>
            /\ f.returned.ok /\ v = JsonMalformed =>
                   f.result = ToolCallResult(from_utf8_lossy(f.returned.value), FALSE)
            /\ f.returned.ok /\ v # JsonMalformed /\ ContentOf(v) # <<>> =>
                   /\ f.result.content = ContentOf(v)
                   /\ "is_error" \notin DOMAIN v.fields => ~f.result.is_error
                   /\ "is_error" \in DOMAIN v.fields /\ v.fields.is_error.json = "bool" =>
                          f.result.is_error = v.fields.is_error.b
            /\ f.returned.ok /\ v # JsonMalformed /\ HasEmptyOrNoContent(v) =>
                   f.result.content = from_utf8_lossy(f.returned.value)

\* A call of an unknown plugin gave an error result, and a tool whose JSON
\* output has an empty content got its raw output back.
C27_Witness ==
    /\ Len(journal.calls) = 2
    /\ journal.calls[1].call = PluginCall("call_tool", "nope", to_vec(EmptyObject))
    /\ journal.calls[1].result =
           ToolCallResult(<<"tool execution failed: ", "plugin not found: ", "nope">>, TRUE)
    /\ journal.calls[2].call.plugin = "reply"
    /\ journal.calls[2].returned =
           CallOk(to_vec(JsonObject([content |-> JsonString(<<>>),
                                     is_error |-> JsonBool(TRUE)])))
    /\ journal.calls[2].result = ToolCallResult(journal.calls[2].returned.value, TRUE)

(***************************************************************************)
(* SpecProxy: the end of webhook_handler (steps 9 and 10) for two requests *)
(* on the channels of a host with three channel adapters.                  *)
(***************************************************************************)
HostA == <<"a", ".", "x">>
HostB == <<"b", ".", "y">>
Url(authority, path) == <<"h", "t", "t", "p", ":", "/", "/">> \o authority \o path

\* The URLs an adapter may ask for: the host a.x, in capitals, with a port,
\* as the userinfo of another host, in the path of another host, as the
\* beginning of another host; a URL without scheme.
ProxyUrls ==
    { Url(HostA, <<"/", "p">>),
      Url(<<"A", ".", "x">>, <<"/", "p">>),
      Url(HostA \o <<":", "8">>, <<"/">>),
      Url(HostA \o <<"@">> \o HostB, <<"/", "p">>),
      Url(HostB, <<"/">> \o HostA),
      Url(HostA \o <<"x">>, <<>>),
      <<"/", "p">> }

\* What format_outgoing may return: documents with a url, with a url and a
\* body, with a url that is no string, without url; text that is no JSON.
FormattedDocs ==
    {JsonObject([url |-> JsonString(u)]) : u \in ProxyUrls}
    \cup { JsonObject([url |-> JsonString(Url(HostA, <<"/", "p">>)),
                       body |-> JsonObject([text |-> JsonString(OkText)])]),
           JsonObject([url |-> JsonNumber(7)]),
           JsonObject([text |-> JsonString(OkText)]) }
FormattedPayloads == {to_vec(d) : d \in FormattedDocs} \cup {Oops}

\* The capability lists of the configuration.
CapLists ==
    { <<Capability_Http(HostA)>>,
      <<Capability_Store(HostA), Capability_HostFunction(HostA)>>,
      <<Capability_Store(HostA), Capability_Http(HostB)>>,
      <<>> }

AdapterExports == {"parse_incoming", "format_outgoing"}
Channels == {"tg", "dc", "irc"}

\* The host after registration: the adapter of "tg" has the capabilities
\* caps and formats to payload, the adapter of "dc" is granted b.y and asks
\* for a.x, the adapter of "irc" does not return.
Adapters(caps, payload) ==
    [n \in Channels |->
        CASE n = "tg" ->
                PluginEntry(n, Module("says", AdapterExports, payload), "ChannelAdapter", caps)
          [] n = "dc" ->
                PluginEntry(n, Module("says", AdapterExports,
                                      to_vec(JsonObject([url |-> JsonString(Url(HostA, <<>>))]))),
                            "ChannelAdapter", <<Capability_Http(HostB)>>)
          [] n = "irc" ->
                PluginEntry(n, Module("spin", AdapterExports, <<>>), "ChannelAdapter", <<>>)]

\* The assistant text of a request.
response_text == <<"h", "i">>

\* serde_json::json!({ "content": response_text })
FormatInput == JsonObject([content |-> JsonString(response_text)])

ProxyDocuments == FormattedDocs \cup {FormatInput, JsonObject([url |-> JsonString(Url(HostA, <<>>))])}

WebhookTasks == {"w1", "w2"}

\* (status, body) of webhook_handler.
Reply(status, body) == [status |-> status, body |-> body]
NoReply == [status |-> 0]

ProxyInit ==
    /\ \E caps \in CapLists, payload \in FormattedPayloads :
         journal = [plugins |-> Adapters(caps, payload),
                    task |-> [t \in WebhookTasks |-> [pc |-> "format", reply |-> NoReply]],
                    posts |-> <<>>]
    /\ route_last = NoRoute
    /\ router = SessionRouter_new
    /\ now = 1
    /\ overflow_checks = FALSE
    /\ counter = TokenCounter_new(Budget(NoLimit, NoLimit, NoLimit), Times[now])
    /\ meter_last = NoCall
    /\ ncalls = 0
    /\ GatewayIdle
    /\ memory = MemoryEngine_new(default_episodic_window, TRUE)
    /\ env = NoEnv

\* PluginHost::call_channel_format
call_channel_format(plugins, plugin_name, response, instantiates) ==
    IF plugins[plugin_name] = NoEntry THEN CallErr(<<"plugin not found: ", plugin_name>>)
    ELSE IF ~instantiates THEN CallErr(<<"instantiation failed">>)
    ELSE call_result(plugin_call(Plugin_new(plugins[plugin_name].manifest, FreshMemory),
                                 "format_outgoing", to_vec(response), response, 0))

\* Step 9: format_outgoing of the adapter of the request's channel; when it
\* fails the handler answers the text itself.
WebhookFormat(t) ==
    /\ journal.task[t].pc = "format"
    /\ \E channel \in Channels, instantiates \in BOOLEAN :
         LET adapter_name == find_channel_adapter(journal.plugins, channel)[1]
             formatted == call_channel_format(journal.plugins, adapter_name, FormatInput,
                                              instantiates)
         IN  journal' = [journal EXCEPT !.task[t] =
                 IF formatted.ok
                 THEN [pc |-> "proxy", adapter_name |-> adapter_name,
                       formatted_payload |-> formatted.value, reply |-> NoReply]
                 ELSE [pc |-> "done", adapter_name |-> adapter_name,
                       formatted_payload |-> <<>>, reply |-> Reply(200, response_text)]]
    /\ UNCHANGED <<meter_vars, gateway_vars, router, route_last>>

\* is_allowed: the URL has a host and the adapter's allow list holds it.
is_allowed(plugins, adapter_name, proxy_url) ==
    LET allowed == PluginHost_allowed_hosts(plugins, adapter_name)
        url_host == host_str(proxy_url)
    IN  IF url_host = None THEN FALSE
        ELSE \E i \in 1..Len(allowed) : allowed[i] = url_host[1]

\* The url member of the formatted payload, when it is JSON with a string
\* under "url".
proxy_url_of(payload) ==
    LET json == from_slice(payload, ProxyDocuments)
    IN  IF json # JsonMalformed /\ json_get(json, "url") # <<>>
        THEN as_str(json_get(json, "url")[1]) ELSE None

\* Step 10 up to the request: without url the payload is the answer; with
\* one the host posts it when it is allowed and answers 403 when not.
WebhookProxy(t) ==
    /\ journal.task[t].pc = "proxy"
    /\ LET task == journal.task[t]
           json == from_slice(task.formatted_payload, ProxyDocuments)
           proxy_url == proxy_url_of(task.formatted_payload)
           proxy_body == IF json_get(json, "body") # <<>> THEN json_get(json, "body")[1]
                         ELSE JsonObject([text |-> JsonString(response_text)])
       IN  journal' =
             IF proxy_url = None
             THEN [journal EXCEPT !.task[t].pc = "done",
                       !.task[t].reply = Reply(200, from_utf8_lossy(task.formatted_payload))]
             ELSE IF is_allowed(journal.plugins, task.adapter_name, proxy_url[1])
             THEN [journal EXCEPT !.task[t].pc = "posting",
                       !.posts = Append(@, [by |-> t, adapter |-> task.adapter_name,
                                            url |-> proxy_url[1],
                                            json |-> to_vec(proxy_body)])]
             ELSE [journal EXCEPT !.task[t].pc = "done",
                       !.task[t].reply = Reply(403, <<"proxy denied">>)]
    /\ UNCHANGED <<meter_vars, gateway_vars, router, route_last>>

\* The outcome of client.post(proxy_url).json(&proxy_body).send(): the
\* body of the response, or a failure.
WebhookProxyReply(t) ==
    /\ journal.task[t].pc = "posting"
    /\ \E sent \in BOOLEAN :
         journal' = [journal EXCEPT !.task[t].pc = "done",
                         !.task[t].reply = IF sent THEN Reply(200, OkText)
                                           ELSE Reply(502, <<"proxy call failed">>)]
    /\ UNCHANGED <<meter_vars, gateway_vars, router, route_last>>

ProxyNext ==
    \E t \in WebhookTasks : WebhookFormat(t) \/ WebhookProxy(t) \/ WebhookProxyReply(t)

SpecProxy == ProxyInit /\ [][ProxyNext]_vars

\* The hosts the Http capabilities of a plugin name.
HttpHosts(plugins, name) ==
    {plugins[name].capabilities[i].value :
        i \in {j \in 1..Len(plugins[name].capabilities) :
                   plugins[name].capabilities[j].variant = "Http"}}

\* The requests the host made for task t.
PostsOf(t) == {i \in 1..Len(journal.posts) : journal.posts[i].by = t}

\* C25: the host posts to the url of an adapter's formatted payload only
\* when the host of the URL is one the Http capabilities of that adapter
\* name (a Store or HostFunction grant of the same name does not count);
\* otherwise the request is answered 403 and nothing is posted.
C25_ProxyOnlyToGrantedHosts ==
    /\ \A i \in 1..Len(journal.posts) :
         LET p == journal.posts[i]
         IN  /\ host_str(p.url) # None
             /\ host_str(p.url)[1] \in HttpHosts(journal.plugins, p.adapter)
             /\ proxy_url_of(journal.task[p.by].formatted_payload) = Some(p.url)
    /\ \A t \in WebhookTasks :
         LET task == journal.task[t]
         IN  task.pc \in {"posting", "done"} /\ task.formatted_payload # <<>>
             /\ proxy_url_of(task.formatted_payload) # None =>
                LET url == proxy_url_of(task.formatted_payload)[1]
                    granted == /\ host_str(url) # None
                               /\ host_str(url)[1] \in HttpHosts(journal.plugins,
                                                                 task.adapter_name)
                IN  IF granted
                    THEN /\ Cardinality(PostsOf(t)) = 1
                         /\ task.pc = "done" => task.reply.status \in {200, 502}
                    ELSE /\ PostsOf(t) = {}
                         /\ task.pc = "done" /\ task.reply.status = 403

\* The adapter of one request holds a Store grant for a.x and an Http grant
\* for b.y and asked for a URL with a.x as userinfo and b.y as host: it
\* was posted; the other request, whose adapter is granted b.y only, asked
\* for a.x and was refused.
C25_Witness ==
    /\ journal.plugins["tg"].capabilities =
           <<Capability_Store(HostA), Capability_Http(HostB)>>
    /\ journal.task["w1"].pc = "done"
    /\ journal.task["w1"].adapter_name = "tg"
    /\ journal.task["w1"].reply.status = 200
    /\ journal.task["w2"].pc = "done"
    /\ journal.task["w2"].adapter_name = "dc"
    /\ journal.task["w2"].reply.status = 403
    /\ Len(journal.posts) = 1
    /\ journal.posts[1].by = "w1"
    /\ journal.posts[1].url = Url(HostA \o <<"@">> \o HostB, <<"/", "p">>)

(***************************************************************************)
(* SpecProvider: one call_streaming of a provider adapter, server-sent     *)
(* event by server-sent event.                                             *)
(***************************************************************************)
MaxSse == 3

Providers == {"anthropic", "openai"}

\* A server-sent event: its type (the event line of Anthropic, the kind of
\* data of OpenAI) and the token count it reports, if any.
Sse(type, tokens) == [type |-> type, tokens |-> tokens]
SseEvents(provider) ==
    IF provider = "anthropic"
    THEN { Sse("message_start", 1), Sse("content_block_start", 0), Sse("text_delta", 0),
           Sse("input_json_delta", 0), Sse("content_block_stop", 0), Sse("message_delta", 2),
           Sse("message_stop", 0), Sse("ping", 0), Sse("unparseable", 0) }
    ELSE { Sse("content", 0), Sse("tool_calls", 0), Sse("finish_tool_calls", 0),
           Sse("usage", 1), Sse("[DONE]", 0), Sse("unparseable", 0) }

\* The call before its request: nothing sent on tx, no tool_use block open.
Calling(provider) ==
    [provider |-> provider, pc |-> "request", path |-> "none", tx |-> <<>>,
     input_tokens |-> U32(0), output_tokens |-> U32(0), tools |-> 0, read |-> 0]

\* `return Ok(())` after Usage and Done.
Closed(c, path) ==
    [c EXCEPT !.pc = "returned", !.path = path,
              !.tx = @ \o <<Usage(c.input_tokens, c.output_tokens), Done>>]

\* AnthropicProvider::call_streaming: the match on the event type.
anthropic_event(c, ev) ==
    CASE ev.type = "message_start" -> [c EXCEPT !.input_tokens = U32(ev.tokens)]
      [] ev.type = "content_block_start" -> [c EXCEPT !.tools = 1]
      [] ev.type = "text_delta" -> [c EXCEPT !.tx = Append(@, Text(1, c.read + 1))]
      [] ev.type = "content_block_stop" ->
            IF c.tools > 0
            THEN [c EXCEPT !.tx = Append(@, ToolUse(1, c.read + 1)), !.tools = 0]
            ELSE c
      [] ev.type = "message_delta" -> [c EXCEPT !.output_tokens = U32(ev.tokens)]
      [] ev.type = "message_stop" -> Closed(c, "stop marker")
      [] OTHER -> c

\* OpenAiProvider::call_streaming: what is done with a data line.
openai_event(c, ev) ==
    CASE ev.type = "[DONE]" -> Closed(c, "stop marker")
      [] ev.type = "usage" ->
            [c EXCEPT !.input_tokens = U32(ev.tokens), !.output_tokens = U32(ev.tokens)]
      [] ev.type = "content" -> [c EXCEPT !.tx = Append(@, Text(1, c.read + 1))]
      [] ev.type = "tool_calls" -> [c EXCEPT !.tools = 1]
      [] ev.type = "finish_tool_calls" ->
            IF c.tools > 0
            THEN [c EXCEPT !.tx = Append(@, ToolUse(1, c.read + 1)), !.tools = 0]
            ELSE c
      [] OTHER -> c

ProviderInit ==
    /\ \E provider \in Providers : journal = Calling(provider)
    /\ route_last = NoRoute
    /\ router = SessionRouter_new
    /\ now = 1
    /\ overflow_checks = FALSE
    /\ counter = TokenCounter_new(Budget(NoLimit, NoLimit, NoLimit), Times[now])
    /\ meter_last = NoCall
    /\ ncalls = 0
    /\ GatewayIdle
    /\ memory = MemoryEngine_new(default_episodic_window, TRUE)
    /\ env = NoEnv

\* client.post(..).send().await?: the request fails (Err, nothing sent), is
\* answered with a non-success status (Error, Done, Ok) or with a stream.
ProviderSend ==
    /\ journal.pc = "request"
    /\ \E outcome \in {"failed", "non-success", "stream"} :
         journal' =
           CASE outcome = "failed" ->
                  [journal EXCEPT !.pc = "returned", !.path = "no response"]
             [] outcome = "non-success" ->
                  [journal EXCEPT !.pc = "returned", !.path = "non-success",
                                  !.tx = <<Error("status: body"), Done>>]
             [] outcome = "stream" -> [journal EXCEPT !.pc = "stream"]
    /\ UNCHANGED <<meter_vars, gateway_vars, router, route_last>>

\* One event of the stream is read and handled.
ProviderRead ==
    /\ journal.pc = "stream"
    /\ journal.read < MaxSse
    /\ \E ev \in SseEvents(journal.provider) :
         LET c == [journal EXCEPT !.read = @ + 1]
         IN  journal' = IF journal.provider = "anthropic" THEN anthropic_event(c, ev)
                        ELSE openai_event(c, ev)
    /\ UNCHANGED <<meter_vars, gateway_vars, router, route_last>>

\* stream.next() yields None before any stop marker: Usage, Done, Ok.
ProviderEnd ==
    /\ journal.pc = "stream"
    /\ journal' = Closed(journal, "ended")
    /\ UNCHANGED <<meter_vars, gateway_vars, router, route_last>>

\* stream.next() yields an error: `let chunk = chunk?` returns it.
ProviderFail ==
    /\ journal.pc = "stream"
    /\ journal' = [journal EXCEPT !.pc = "returned", !.path = "transport"]
    /\ UNCHANGED <<meter_vars, gateway_vars, router, route_last>>

ProviderNext == ProviderSend \/ ProviderRead \/ ProviderEnd \/ ProviderFail

SpecProvider == ProviderInit /\ [][ProviderNext]_vars

\* The number of events of a kind on the call's tx.
Emitted(kind) == Cardinality({i \in 1..Len(journal.tx) : journal.tx[i].kind = kind})

\* C28: once call_streaming has returned after a response (a stream that
\* came to its stop marker, one that ended without, a non-success status, a
\* transport failure in mid-stream), the last event on tx is Done and it is
\* there exactly once; after a stream that came to its stop marker or to
\* its end there is exactly one Usage, right before Done.
C28_DoneLastExactlyOnce ==
    journal.pc = "returned" /\ journal.path # "no response" =>
        /\ LastIs(journal.tx, "done")
        /\ Emitted("done") = 1
        /\ journal.path \in {"stop marker", "ended"} =>
               /\ Emitted("usage") = 1
               /\ journal.tx[Len(journal.tx) - 1].kind = "usage"

(***************************************************************************)
(* SpecLocks: AppState::session_lock called by three tasks.  A mutex is    *)
(* known by the number of its allocation.                                  *)
(***************************************************************************)
MaxLockCalls == 2

LockTasks == {"t1", "t2", "t3"}

\* HashMap::entry(key).or_insert_with(|| Arc::new(Mutex::new(()))): the map
\* afterwards, fresh being the mutex a new allocation would give.
insert_Replacing(locks, key, fresh) == [locks EXCEPT ![key] = Some(fresh)]
or_insert_with(locks, key, fresh) ==
    IF locks[key] = None THEN [locks EXCEPT ![key] = Some(fresh)] ELSE locks

\* A task outside session_lock, having made n calls, the last of which
\* returned got.
Outside(n, key, missed, got) ==
    [pc |-> "outside", calls |-> n, key |-> key, missed |-> missed, got |-> got]

LocksInit ==
    /\ journal = [locks |-> [k \in Sessions |-> None],
                  made |-> [k \in Sessions |-> 0],
                  allocated |-> 0,
                  returned |-> [k \in Sessions |-> {}],
                  task |-> [t \in LockTasks |-> Outside(0, "s1", FALSE, None)]]
    /\ route_last = NoRoute
    /\ router = SessionRouter_new
    /\ now = 1
    /\ overflow_checks = FALSE
    /\ counter = TokenCounter_new(Budget(NoLimit, NoLimit, NoLimit), Times[now])
    /\ meter_last = NoCall
    /\ ncalls = 0
    /\ GatewayIdle
    /\ memory = MemoryEngine_new(default_episodic_window, TRUE)
    /\ env = NoEnv

\* The block under session_locks.read(): the mutex of the key is returned
\* when the map has it; else the read guard is dropped and the task goes
\* for the write lock.
LockRead(t) ==
    /\ journal.task[t].pc = "outside"
    /\ journal.task[t].calls < MaxLockCalls
    /\ \E key \in Sessions :
         LET n == journal.task[t].calls + 1
         IN  journal' =
               IF journal.locks[key] # None
               THEN [journal EXCEPT !.task[t] = Outside(n, key, FALSE, journal.locks[key]),
                                    !.returned[key] = @ \cup {journal.locks[key][1]}]
               ELSE [journal EXCEPT !.task[t] =
                         [pc |-> "write", calls |-> n, key |-> key, missed |-> TRUE,
                          got |-> None]]
    /\ UNCHANGED <<meter_vars, gateway_vars, router, route_last>>

\* Under session_locks.write(): the entry of the key, made if it is not
\* there, is returned.
LockWrite(t) ==
    /\ journal.task[t].pc = "write"
    /\ LET key == journal.task[t].key
           fresh == journal.allocated + 1
           locks == or_insert_with(journal.locks, key, fresh)
           inserted == locks[key] = Some(fresh)
       IN  journal' = [journal EXCEPT
                         !.locks = locks,
                         !.allocated = IF inserted THEN fresh ELSE @,
                         !.made[key] = IF inserted THEN @ + 1 ELSE @,
                         !.returned[key] = @ \cup {locks[key][1]},
                         !.task[t] = Outside(journal.task[t].calls, key, TRUE, locks[key])]
    /\ UNCHANGED <<meter_vars, gateway_vars, router, route_last>>

LocksNext == \E t \in LockTasks : LockRead(t) \/ LockWrite(t)

SpecLocks == LocksInit /\ [][LocksNext]_vars

\* C29: all calls of session_lock for a key return the same mutex, the
\* first calls of several tasks at once included; the map gets an entry for
\* a key at most once, and an entry is never replaced or removed.
C29_OneMutexPerKey ==
    /\ [](\A k \in Sessions :
            /\ Cardinality(journal.returned[k]) <= 1
            /\ journal.made[k] <= 1
            /\ journal.locks[k] # None => journal.returned[k] \subseteq {journal.locks[k][1]})
    /\ [][\A k \in Sessions : journal.locks[k] # None => journal'.locks[k] = journal.locks[k]]_vars

\* Two tasks both found no entry for s1 on their first call and both went
\* for the write lock; both came back with the same mutex, which a third
\* task got from the map, while s2 has another.
C29_Witness ==
    /\ \A t \in {"t1", "t2"} :
         /\ journal.task[t] = Outside(1, "s1", TRUE, journal.locks["s1"])
    /\ journal.task["t3"] = Outside(2, "s1", FALSE, journal.locks["s1"])
    /\ journal.locks["s1"] # None
    /\ journal.locks["s2"] # None
    /\ journal.locks["s2"] # journal.locks["s1"]

(***************************************************************************)
(* Claims about the periods of the meter                                   *)
(***************************************************************************)
\* The last call ran on a later day, or in a later month, than the period
\* start it found.
LaterDay == TimeGt(meter_last.at, meter_last.before.daily_start)
LaterMonth == TimeGt(<<meter_last.at[1], 1>>, meter_last.before.monthly_start)

\* What the last call found of the day and of the month that still counts.
DailyBase == IF LaterDay THEN U64(0) ELSE meter_last.before.daily_used
MonthlyBase == IF LaterMonth THEN U64(0) ELSE meter_last.before.monthly_used

\* C30: a check_budget or record_usage that runs on a later UTC day than
\* the stored daily start sets daily_used to 0 and the start to that day
\* before it checks or adds, and likewise for a later month; so what was
\* used in an earlier period counts neither in the check nor in the new
\* total, and no rollover changes a session's total.
C30_RolloverBeforeUse ==
    meter_last.op \in {"check", "record"}
    /\ (meter_last.op = "record" => ~meter_last.panicked) =>
       LET b == meter_last.before
           key == meter_last.key
           added == IF meter_last.op = "record"
                    THEN AsU64(WrappingAdd(meter_last.i, meter_last.o)) ELSE U64(0)
       IN  /\ counter.daily_start = IF LaterDay THEN meter_last.at ELSE b.daily_start
           /\ counter.monthly_start =
                  IF LaterMonth THEN <<meter_last.at[1], 1>> ELSE b.monthly_start
           /\ counter.daily_used = WrappingAdd(DailyBase, added)
           /\ counter.monthly_used = WrappingAdd(MonthlyBase, added)
           /\ meter_last.op = "check" =>
                  meter_last.result =
                      CheckResult([b EXCEPT !.daily_used = DailyBase,
                                            !.monthly_used = MonthlyBase],
                                  key, meter_last.est)
           /\ \A k \in Sessions :
                  SessionUsed(counter, k) =
                      WrappingAdd(SessionUsed(b, k), IF k = key THEN added ELSE U64(0))

\* Usage was recorded in a later month than the one the counter stood in,
\* for a session that had used tokens before: the month and the day hold
\* the new usage only, the session holds both.
C30_Witness ==
    /\ meter_last.op = "record"
    /\ ~meter_last.panicked
    /\ LaterMonth
    /\ LaterDay
    /\ meter_last.before.monthly_used # U64(0)
    /\ meter_last.before.daily_used # U64(0)
    /\ SessionUsed(meter_last.before, meter_last.key) # U64(0)
    /\ counter.monthly_used = AsU64(WrappingAdd(meter_last.i, meter_last.o))
    /\ counter.daily_used = counter.monthly_used
    /\ Gt(SessionUsed(counter, meter_last.key), counter.monthly_used)

(***************************************************************************)
(* Claims about concurrent turns of the gateway.                           *)
(***************************************************************************)
\* C31: the budget check of a chat.send decides on the usage recorded so far
\* and reserves nothing (the counter changes by a period rollover only), so
\* a request admitted but not yet recorded is invisible to the check of a
\* concurrent request, and the recorded usage of a session can end above its
\* limit although every request was admitted.
C31_CheckAndRecordNotJoint ==
    [][ \A r \in Reqs :
          (conn[r].kind = "chat" /\ hist[r].check = "none" /\ hist'[r].check # "none") =>
             LET rolled == maybe_reset_periods(counter, Times[now])
             IN  /\ counter' = rolled
                 /\ \E est \in EstVals :
                       hist'[r].check = CheckOutcome(CheckResult(rolled, conn[r].key, est))
      ]_vars

\* C31 witness: two chat.send requests of one session, both admitted, each
\* within the session limit on its own, whose recorded usage together exceeds
\* the limit (the second check ran before the first usage was recorded: a
\* check after it would have refused).
C31_Witness ==
    /\ conn["r1"].kind = "chat" /\ conn["r2"].kind = "chat"
    /\ conn["r1"].key = conn["r2"].key
    /\ hist["r1"].check = "ok" /\ hist["r2"].check = "ok"
    /\ hist["r1"].usage_recorded = 1 /\ hist["r2"].usage_recorded = 1
    /\ counter.session_limit # NoLimit
    /\ Gt(SessionUsed(counter, conn["r1"].key), counter.session_limit)
    /\ \A est \in EstVals : ~CheckResult(counter, conn["r1"].key, est).ok

(***************************************************************************)
(* SpecTools: AgentRunner::run_with_tools (agent/mod.rs) over a plugin     *)
(* host, with the names of the tools and the contents of their results.    *)
(* The provider asks for the tools of a script in each of its first turns, *)
(* then answers with text; the receiver of tx keeps draining it.           *)
(***************************************************************************)
\* PluginHost::has_plugin
has_plugin(plugins, name) == name \in DOMAIN plugins /\ plugins[name] # NoEntry

\* PluginHost::call_tool on a registered plugin, a fresh instance per call.
call_tool(plugins, name, input) ==
    LET run == plugin_call(Plugin_new(plugins[name].manifest, FreshMemory),
                           "handle_tool_call", to_vec(input), input, 0)
        returned == call_result(run)
    IN  tool_result(returned,
                    IF returned.ok THEN from_slice(returned.value, ToolDocuments)
                    ELSE JsonMalformed)

\* A dispatch that passes an unknown tool over as if it had succeeded.
dispatch_UnknownOk(plugins, name, input) ==
    IF has_plugin(plugins, name) THEN call_tool(plugins, name, input)
    ELSE ToolCallResult(<<>>, FALSE)
\* `if plugin_host.has_plugin(name) { call_tool } else { unknown tool }`
dispatch(plugins, name, input) ==
    IF has_plugin(plugins, name) THEN call_tool(plugins, name, input)
    ELSE ToolCallResult(<<"unknown tool: ", name>>, TRUE)

\* AgentEvent::ToolUse and AgentEvent::ToolResult with their fields.
AgentEvent_ToolUse(id, name, input) ==
    [kind |-> "tool_use", id |-> id, name |-> name, input |-> input]
AgentEvent_ToolResult(tool_use_id, result) ==
    [kind |-> "tool_result", tool_use_id |-> tool_use_id, content |-> result.content,
     is_error |-> result.is_error]
\* The blocks of the assistant and of the user message of an iteration.
ToolUseBlock(c) == [type |-> "tool_use", id |-> c.id, name |-> c.name, input |-> c.input]
ToolResultContent(id, result) ==
    [type |-> "tool_result", tool_use_id |-> id, content |-> result.content,
     is_error |-> result.is_error]

\* The tools a provider turn may ask for: "count" answers, "spin" runs
\* into its timeout, "nope" is not registered.
ToolNames == {"count", "spin", "nope"}
ToolScripts == {<<a>> : a \in ToolNames} \cup {<<a, b>> : a \in ToolNames, b \in ToolNames}
\* In how many of its first turns the provider asks for tools.
ToolTurns == {1, MAX_TOOL_ITERATIONS}

\* What the provider streams in its turn it: the tools of the script, or text.
ProviderTurn(script, turns, it) ==
    IF it <= turns
    THEN [k \in 1..Len(script) |-> AgentEvent_ToolUse(<<it, k>>, script[k], EmptyObject)]
         \o <<Usage(U32(1), U32(1)), Done>>
    ELSE <<Text(it, 1), Usage(U32(1), U32(1)), Done>>

ToolsInit ==
    /\ \E script \in ToolScripts, turns \in ToolTurns :
         journal = [pc |-> "top", script |-> script, turns |-> turns, iteration |-> 0,
                    current_messages |-> <<Message_text("user", UserContent("r1"))>>,
                    inner |-> <<>>, tool_calls |-> <<>>, todo |-> <<>>,
                    tool_result_content |-> <<>>, tx |-> <<>>, calls |-> <<>>,
                    returned |-> "no"]
    /\ route_last = NoRoute
    /\ router = SessionRouter_new
    /\ now = 1
    /\ overflow_checks = FALSE
    /\ counter = TokenCounter_new(Budget(NoLimit, NoLimit, NoLimit), Times[now])
    /\ meter_last = NoCall
    /\ ncalls = 0
    /\ GatewayIdle
    /\ memory = MemoryEngine_new(default_episodic_window, TRUE)
    /\ env = NoEnv

\* The head of the loop: count the iteration, give up past the limit, else
\* call the provider with current_messages.
ToolsIterate ==
    /\ journal.pc = "top"
    /\ journal.iteration < MAX_TOOL_ITERATIONS
    /\ journal' = [journal EXCEPT
                     !.iteration = @ + 1,
                     !.calls = Append(@, journal.current_messages),
                     !.inner = ProviderTurn(journal.script, journal.turns,
                                            journal.iteration + 1),
                     !.tool_calls = <<>>,
                     !.pc = "collect"]
    /\ UNCHANGED <<meter_vars, gateway_vars, router, route_last>>

\* `if iteration > MAX_TOOL_ITERATIONS`: Error, Done, return Ok.
ToolsGiveUp ==
    /\ journal.pc = "top"
    /\ journal.iteration >= MAX_TOOL_ITERATIONS
    /\ journal' = [journal EXCEPT
                     !.iteration = @ + 1,
                     !.tx = @ \o <<Error("tool-use loop exceeded max iterations"), Done>>,
                     !.pc = "done", !.returned = "ok"]
    /\ UNCHANGED <<meter_vars, gateway_vars, router, route_last>>

\* `call_streaming(..).await?` returns Err: run_with_tools returns it.
ToolsProviderFails ==
    /\ journal.pc = "top"
    /\ journal.iteration < MAX_TOOL_ITERATIONS
    /\ journal' = [journal EXCEPT
                     !.iteration = @ + 1,
                     !.calls = Append(@, journal.current_messages),
                     !.pc = "done", !.returned = "err"]
    /\ UNCHANGED <<meter_vars, gateway_vars, router, route_last>>

\* `while let Some(event) = inner_rx.recv().await` to its end, then either
\* Done or the assistant message with the tool_use blocks.
ToolsCollect ==
    /\ journal.pc = "collect"
    /\ LET uses == SelectSeq(journal.inner, LAMBDA e : e.kind = "tool_use")
           forwarded == SelectSeq(journal.inner, LAMBDA e : e.kind # "done")
       IN  journal' =
             IF uses = <<>>
             THEN [journal EXCEPT !.inner = <<>>, !.tx = @ \o forwarded \o <<Done>>,
                                  !.pc = "done", !.returned = "ok"]
             ELSE [journal EXCEPT
                     !.inner = <<>>, !.tx = @ \o forwarded,
                     !.tool_calls = uses, !.todo = uses,
                     !.current_messages =
                         Append(@, [role |-> "assistant",
                                    content |-> [k \in 1..Len(uses) |-> ToolUseBlock(uses[k])]]),
                     !.tool_result_content = <<>>,
                     !.pc = "tools"]
    /\ UNCHANGED <<meter_vars, gateway_vars, router, route_last>>

\* One turn of `for (id, name, input) in &tool_calls`.
ToolsExecute ==
    /\ journal.pc = "tools"
    /\ journal.todo # <<>>
    /\ LET c == Head(journal.todo)
           result == dispatch(Registered, c.name, c.input)
       IN  journal' = [journal EXCEPT
                         !.todo = Tail(@),
                         !.tx = Append(@, AgentEvent_ToolResult(c.id, result)),
                         !.tool_result_content = Append(@, ToolResultContent(c.id, result))]
    /\ UNCHANGED <<meter_vars, gateway_vars, router, route_last>>

\* After the for loop: the user message with the results, and back to the
\* head of the loop.
ToolsFollowUp ==
    /\ journal.pc = "tools"
    /\ journal.todo = <<>>
    /\ journal' = [journal EXCEPT
                     !.current_messages =
                         Append(@, [role |-> "user", content |-> journal.tool_result_content]),
                     !.pc = "top"]
    /\ UNCHANGED <<meter_vars, gateway_vars, router, route_last>>

ToolsNext ==
    \/ ToolsIterate
    \/ ToolsGiveUp
    \/ ToolsProviderFails
    \/ ToolsCollect
    \/ ToolsExecute
    \/ ToolsFollowUp

SpecTools == ToolsInit /\ [][ToolsNext]_vars

\* The iteration i has appended its assistant and its user message.
ToolsRan(i) == Len(journal.current_messages) >= 2 * i + 1
\* The tool call has no plugin, or its plugin call fails.
Unregistered(c) == ~has_plugin(Registered, c.name)
CallFails(c) ==
    /\ has_plugin(Registered, c.name)
    /\ ~call_result(plugin_call(Plugin_new(Registered[c.name].manifest, FreshMemory),
                                "handle_tool_call", to_vec(c.input), c.input, 0)).ok
\* The ToolResult events sent so far, in order.
ResultsSent == SelectSeq(journal.tx, LAMBDA e : e.kind = "tool_result")
\* The tool_result blocks of the iterations up to i, in order.
RECURSIVE ResultsUpTo(_)
ResultsUpTo(i) ==
    IF i = 0 THEN <<>> ELSE ResultsUpTo(i - 1) \o journal.current_messages[2 * i + 1].content

\* What holds of an iteration i whose tools have run: a result for every
\* call, erroneous where the call had no plugin or failed, each sent as a
\* ToolResult event and all of them in the follow-up user message.
ErrorsAnswered(i) ==
    LET uses == journal.current_messages[2 * i].content
        follow == journal.current_messages[2 * i + 1]
    IN  /\ follow.role = "user"
        /\ Len(follow.content) = Len(uses)
        /\ \A k \in 1..Len(uses) :
              /\ follow.content[k].tool_use_id = uses[k].id
              /\ (Unregistered(uses[k]) \/ CallFails(uses[k])) => follow.content[k].is_error
              /\ Unregistered(uses[k]) =>
                    follow.content[k].content = <<"unknown tool: ", uses[k].name>>
              /\ \E n \in 1..Len(ResultsSent) :
                    /\ n = Len(ResultsUpTo(i - 1)) + k
                    /\ ResultsSent[n].tool_use_id = uses[k].id
                    /\ ResultsSent[n].content = follow.content[k].content
                    /\ ResultsSent[n].is_error = follow.content[k].is_error
HadError(i) ==
    \E k \in 1..Len(journal.current_messages[2 * i].content) :
       LET c == journal.current_messages[2 * i].content[k]
       IN  Unregistered(c) \/ CallFails(c)
\* The loop has gone on from the tools of iteration i.
WentOn(i) == journal.iteration > i
\* The provider was called again with the history up to the follow-up.
CalledAgain(i) ==
    /\ Len(journal.calls) > i
    /\ journal.calls[i + 1] = SubSeq(journal.current_messages, 1, 2 * i + 1)

\* C32 as stated: a tool call without a plugin, or one whose plugin call
\* fails, gets an erroneous ToolResult (content "unknown tool: <name>" when
\* unregistered), the other calls of the iteration are executed, the result
\* is in the follow-up user message, and the provider is called again.
C32_ErrorThenProviderCalledAgain ==
    \A i \in 1..MAX_TOOL_ITERATIONS :
       (ToolsRan(i) /\ HadError(i)) =>
          /\ ErrorsAnswered(i)
          /\ WentOn(i) => CalledAgain(i)

\* C32 amended: the same, the provider being called again unless the
\* iteration was the last the loop allows; after that one the turn ends
\* with Error("tool-use loop exceeded max iterations") and Done.
C32_ErrorDoesNotAbort ==
    \A i \in 1..MAX_TOOL_ITERATIONS :
       (ToolsRan(i) /\ HadError(i)) =>
          /\ ErrorsAnswered(i)
          /\ (WentOn(i) /\ i < MAX_TOOL_ITERATIONS) => CalledAgain(i)
          /\ (WentOn(i) /\ i = MAX_TOOL_ITERATIONS) =>
                /\ Len(journal.calls) = MAX_TOOL_ITERATIONS
                /\ journal.returned = "ok"
                /\ SubSeq(journal.tx, Len(journal.tx) - 1, Len(journal.tx))
                      = <<Error("tool-use loop exceeded max iterations"), Done>>

\* C32 witness: a turn that ended with text after an iteration whose first
\* call had no plugin and whose second call ran.
C32_Witness ==
    /\ journal.pc = "done" /\ journal.returned = "ok"
    /\ journal.script = <<"nope", "count">>
    /\ journal.turns = 1
    /\ Len(journal.calls) = 2
    /\ ToolsRan(1) /\ HadError(1)
    /\ ~journal.current_messages[3].content[2].is_error
    /\ journal.tx[Len(journal.tx)] = Done

(***************************************************************************)
(* SpecToolCalls: the tool-call accumulator of the OpenAI-style adapter    *)
(* (providers.rs, OpenAiProvider::call_streaming) over the chunks of one   *)
(* response.  A chunk carries tool-call fragments and maybe a finish       *)
(* reason; the chunks here carry neither text nor usage.                   *)
(***************************************************************************)
MaxChunks == 3

\* One element of delta.tool_calls; each member may be absent.
Fragment(index, id, name, arguments) ==
    [index |-> index, id |-> id, name |-> name, arguments |-> arguments]
\* One `data:` event: choices[0].delta.tool_calls and choices[0].finish_reason.
Chunk(tool_calls, finish_reason) == [tool_calls |-> tool_calls, finish_reason |-> finish_reason]

Fragments ==
    [opens  |-> Fragment(None, Some("a"), Some("f"), None),
     brace  |-> Fragment(None, None, None, Some(<<"{">>)),
     closes |-> Fragment(Some(0), Some("b"), None, Some(<<"}">>)),
     second |-> Fragment(Some(1), Some("c"), Some("g"), Some(<<"1">>)),
     digit  |-> Fragment(Some(1), None, None, Some(<<"1">>))]
FragmentLists ==
    {<<>>} \cup {<<Fragments[k]>> : k \in DOMAIN Fragments}
    \cup {<<Fragments.second, Fragments.closes>>, <<Fragments.second, Fragments.opens>>}
Chunks ==
    {Chunk(tcs, fr) : tcs \in FragmentLists, fr \in {None, Some("tool_calls")}}
    \cup {Chunk(<<>>, Some("stop"))}

\* The documents the argument strings of the fragments can spell.
ArgumentDocs == {EmptyObject, JsonNumber(1), JsonNumber(11), JsonNumber(111), JsonNumber(1111)}
\* serde_json::from_str(&args).unwrap_or(Value::Object(Default::default()))
parse_arguments(args) ==
    IF from_slice(args, ArgumentDocs) = JsonMalformed THEN EmptyObject
    ELSE from_slice(args, ArgumentDocs)

\* (String::new(), String::new(), String::new())
NewEntry == [id |-> "", name |-> "", args |-> <<>>]

\* The body of `for tc in tcs`: the accumulator after one fragment.
accumulate(tool_calls, tc) ==
    LET index == unwrap_or(tc.index, 0)
        entry == IF index \in DOMAIN tool_calls THEN tool_calls[index] ELSE NewEntry
        after == [id |-> IF tc.id # None THEN tc.id[1] ELSE entry.id,
                  name |-> IF tc.name # None THEN tc.name[1] ELSE entry.name,
                  args |-> IF tc.arguments # None THEN entry.args \o tc.arguments[1]
                           ELSE entry.args]
    IN  [k \in DOMAIN tool_calls \cup {index} |-> IF k = index THEN after ELSE tool_calls[k]]

RECURSIVE accumulate_all(_, _)
accumulate_all(tool_calls, tcs) ==
    IF tcs = <<>> THEN tool_calls
    ELSE accumulate_all(accumulate(tool_calls, Head(tcs)), Tail(tcs))

\* `indices.sort()`
RECURSIVE sort(_)
sort(indices) ==
    IF indices = {} THEN <<>> ELSE <<Min(indices)>> \o sort(indices \ {Min(indices)})

\* A remove that leaves the entry in the map.
remove_Keeping(tool_calls, idx) == tool_calls
\* HashMap::remove: the map without the key.
remove(tool_calls, idx) == [k \in DOMAIN tool_calls \ {idx} |-> tool_calls[k]]

\* `for idx in indices { if let Some(..) = tool_calls.remove(&idx) { send } }`:
\* the events sent and the accumulator left.
RECURSIVE emit_tool_calls(_, _)
emit_tool_calls(tool_calls, indices) ==
    IF indices = <<>> THEN [sent |-> <<>>, tool_calls |-> tool_calls]
    ELSE LET idx == Head(indices)
             e == tool_calls[idx]
             rest == emit_tool_calls(remove(tool_calls, idx), Tail(indices))
         IN  [sent |-> <<AgentEvent_ToolUse(e.id, e.name, parse_arguments(e.args))>>
                       \o rest.sent,
              tool_calls |-> rest.tool_calls]

NoToolCalls == [k \in {} |-> NewEntry]

ToolCallsInit ==
    /\ journal = [pc |-> "stream", tool_calls |-> NoToolCalls, tx |-> <<>>, read |-> <<>>,
                  sent_at |-> <<>>]
    /\ route_last = NoRoute
    /\ router = SessionRouter_new
    /\ now = 1
    /\ overflow_checks = FALSE
    /\ counter = TokenCounter_new(Budget(NoLimit, NoLimit, NoLimit), Times[now])
    /\ meter_last = NoCall
    /\ ncalls = 0
    /\ GatewayIdle
    /\ memory = MemoryEngine_new(default_episodic_window, TRUE)
    /\ env = NoEnv

\* One `data:` event with choices: accumulate its fragments, then emit on
\* finish_reason "tool_calls".
ToolCallsChunk ==
    /\ journal.pc = "stream"
    /\ Len(journal.read) < MaxChunks
    /\ \E chunk \in Chunks :
         LET acc == accumulate_all(journal.tool_calls, chunk.tool_calls)
             out == IF chunk.finish_reason = Some("tool_calls")
                    THEN emit_tool_calls(acc, sort(DOMAIN acc))
                    ELSE [sent |-> <<>>, tool_calls |-> acc]
         IN  journal' = [journal EXCEPT
                           !.read = Append(@, chunk),
                           !.tool_calls = out.tool_calls,
                           !.tx = @ \o out.sent,
                           !.sent_at = @ \o [k \in 1..Len(out.sent) |-> Len(journal.read) + 1]]
    /\ UNCHANGED <<meter_vars, gateway_vars, router, route_last>>

\* `data: [DONE]`, or the end of the stream: Usage, Done, return Ok.
ToolCallsDone ==
    /\ journal.pc = "stream"
    /\ journal' = [journal EXCEPT !.pc = "returned",
                                  !.tx = @ \o <<Usage(U32(0), U32(0)), Done>>,
                                  !.sent_at = @ \o <<Len(journal.read) + 1,
                                                     Len(journal.read) + 1>>]
    /\ UNCHANGED <<meter_vars, gateway_vars, router, route_last>>

\* stream.next() yields an error: `let chunk = chunk?` returns it.
ToolCallsFail ==
    /\ journal.pc = "stream"
    /\ journal' = [journal EXCEPT !.pc = "failed"]
    /\ UNCHANGED <<meter_vars, gateway_vars, router, route_last>>

ToolCallsNext == ToolCallsChunk \/ ToolCallsDone \/ ToolCallsFail

SpecToolCalls == ToolCallsInit /\ [][ToolCallsNext]_vars

\* The chunks read that carried finish_reason "tool_calls".
IsFlush(n) == journal.read[n].finish_reason = Some("tool_calls")
\* The first chunk after the last flush before chunk n.
SegmentStart(n) ==
    LET earlier == {m \in 1..(n - 1) : IsFlush(m)}
    IN  IF earlier = {} THEN 1 ELSE (CHOOSE m \in earlier : \A k \in earlier : k <= m) + 1
\* The fragments of the chunks a..b in arrival order.
RECURSIVE FragmentsOf(_, _)
FragmentsOf(a, b) ==
    IF b < a THEN <<>> ELSE FragmentsOf(a, b - 1) \o journal.read[b].tool_calls
IndexOf(tc) == IF tc.index = None THEN 0 ELSE tc.index[1]
\* The latest of the fragments for index i that carries the member, if any.
LatestId(frs, i) ==
    LET with == {k \in 1..Len(frs) : IndexOf(frs[k]) = i /\ frs[k].id # None}
    IN  IF with = {} THEN ""
        ELSE frs[CHOOSE k \in with : \A j \in with : j <= k].id[1]
LatestName(frs, i) ==
    LET with == {k \in 1..Len(frs) : IndexOf(frs[k]) = i /\ frs[k].name # None}
    IN  IF with = {} THEN ""
        ELSE frs[CHOOSE k \in with : \A j \in with : j <= k].name[1]
\* The argument strings of the fragments for index i, concatenated.
RECURSIVE Arguments(_, _)
Arguments(frs, i) ==
    IF frs = <<>> THEN <<>>
    ELSE LET last == frs[Len(frs)]
         IN  Arguments(SubSeq(frs, 1, Len(frs) - 1), i)
             \o (IF IndexOf(last) = i /\ last.arguments # None THEN last.arguments[1]
                 ELSE <<>>)
\* The tool calls the fragments describe, by ascending index.
CallsOf(frs) ==
    LET indices == {IndexOf(frs[k]) : k \in 1..Len(frs)}
        ordered == sort(indices)
    IN  [n \in 1..Len(ordered) |->
           AgentEvent_ToolUse(LatestId(frs, ordered[n]), LatestName(frs, ordered[n]),
                              parse_arguments(Arguments(frs, ordered[n])))]
\* What the chunks 1..n call for, flush by flush.
RECURSIVE CalledFor(_)
CalledFor(n) ==
    IF n = 0 THEN <<>>
    ELSE CalledFor(n - 1)
         \o (IF IsFlush(n) THEN CallsOf(FragmentsOf(SegmentStart(n), n)) ELSE <<>>)

ToolUsesSent == SelectSeq(journal.tx, LAMBDA e : e.kind = "tool_use")

\* C33: the ToolUse events sent are, flush by flush, one per index that got
\* a fragment since the flush before, in ascending index order, with the
\* latest id and name and the concatenated arguments; each is sent while
\* the chunk with finish_reason "tool_calls" is handled, and after that
\* chunk the accumulator is empty (what is left holds only the fragments
\* that came since).
C33_ToolCallsEmittedOnceAtFinish ==
    LET n == Len(journal.read)
    IN  /\ ToolUsesSent = CalledFor(n)
        /\ \A k \in 1..Len(journal.tx) :
              journal.tx[k].kind = "tool_use" =>
                 /\ journal.sent_at[k] <= n
                 /\ IsFlush(journal.sent_at[k])
        /\ (n > 0 /\ IsFlush(n)) => journal.tool_calls = NoToolCalls
        /\ DOMAIN journal.tool_calls
              = {IndexOf(tc) : tc \in {FragmentsOf(SegmentStart(n + 1), n)[k] :
                                         k \in 1..Len(FragmentsOf(SegmentStart(n + 1), n))}}

\* C33 witness: fragments of two indices spread over three chunks, the id
\* of index 0 replaced by a later fragment, both emitted by the third.
C33_Witness ==
    /\ journal.read = << Chunk(<<Fragments.opens>>, None),
                         Chunk(<<Fragments.brace>>, None),
                         Chunk(<<Fragments.second, Fragments.closes>>, Some("tool_calls")) >>
    /\ ToolUsesSent = << AgentEvent_ToolUse("b", "f", EmptyObject),
                         AgentEvent_ToolUse("c", "g", JsonNumber(1)) >>
    /\ journal.tool_calls = NoToolCalls
    /\ journal.pc = "returned"

\* The Usage events the runner of r passed on from its provider calls.
UsageEmitted(r) == SelectSeq(hist[r].emitted, LAMBDA e : e.kind = "usage")

\* C34: once the runner and the relay of a chat.send are through, every
\* Usage event of the turn's provider calls has been recorded by
\* record_usage, once each (builds whose record_usage cannot panic).
C34_EveryUsageRecordedOnce ==
    \A r \in Reqs :
       (conn[r].kind = "chat" /\ runner[r].pc = "done" /\ relay[r] = "done"
        /\ ~overflow_checks) =>
          hist[r].usage_recorded = Len(UsageEmitted(r))

\* The places of the session log of key that hold a message of request r
\* in the given role.
LogPlaces(key, r, role) ==
    {i \in 1..Len(store[key].messages) :
       store[key].messages[i].role = role /\ store[key].messages[i].req = r}
\* b was received while a was in flight, and a's turn is complete: in the
\* session log a's user message, then b's, then a's assistant reply.
ReceivedInFlight(a, b, key) ==
    \E i \in LogPlaces(key, a, "user"), j \in LogPlaces(key, b, "user"),
       k \in LogPlaces(key, a, "assistant") : i < j /\ j < k

\* C35: when the runner of a chat.send b, received while chat.send a of the
\* same session was in flight, makes its first provider call after a's turn
\* is complete, the message list of that call holds a's user message and
\* a's assistant reply.
C35_LaterTurnSeesEarlierTurn ==
    [][ \A a \in Reqs, b \in Reqs :
          ( /\ a # b
            /\ conn[a].kind = "chat" /\ conn[b].kind = "chat"
            /\ conn[a].key = conn[b].key
            /\ hist[b].calls = <<>> /\ hist'[b].calls # <<>>
            /\ ReceivedInFlight(a, b, conn[a].key) ) =>
             LET msgs == hist'[b].calls[1]
                 k == CHOOSE k \in LogPlaces(conn[a].key, a, "assistant") : TRUE
             IN  /\ \E n \in 1..Len(msgs) : msgs[n] = Message_text("user", UserContent(a))
                 /\ \E n \in 1..Len(msgs) :
                       msgs[n] = Message_text("assistant",
                                              store[conn[a].key].messages[k].content)
      ]_vars

(***************************************************************************)
(* SpecSessions: one memory engine serving the turns of two sessions.  In  *)
(* each turn the user states a name ("my name is x"), from which           *)
(* extract_entities makes the fact (user, name, x); contexts are assembled *)
(* for either session in between.                                          *)
(***************************************************************************)
MaxTurns == 2

MyNameIs == <<"m", "y", " ", "n", "a", "m", "e", " ", "i", "s", " ">>
Okay == <<"o", "k", "a", "y">>

\* extract_entities on a one-sentence text without delimiters: the text
\* after "my name is ", if the sentence holds the pattern (at its start, in
\* the texts here) and something follows.
extract_entities(text) ==
    IF Len(text) > Len(MyNameIs) /\ SubSeq(text, 1, Len(MyNameIs)) = MyNameIs
    THEN << <<User, Name, SubSeq(text, Len(MyNameIs) + 1, Len(text))>> >>
    ELSE <<>>

\* MemoryEngine::process_response with the extraction: both messages to the
\* episodic window, then the entities of the user message and of the
\* assistant message to the semantic store; ids are the uuids drawn.
RECURSIVE store_all(_, _, _, _)
store_all(sem, triples, id, t) ==
    IF triples = <<>> THEN sem
    ELSE LET e == make_entity(id, triples[1][1], triples[1][2], triples[1][3], t)
         IN  store_all(semantic_store(sem, e, t, e.subject), Tail(triples), id + 1, t)
process_turn(m, session_key, user_message, assistant_message, id, t) ==
    LET m1 == process_response(m, session_key, user_message, assistant_message)
        found == extract_entities(user_message.content)
                 \o extract_entities(assistant_message.content)
    IN  [m1 EXCEPT !.semantic = store_all(@, found, id, t)]

Turn(session_key, object) == [session_key |-> session_key, object |-> object]
TurnQueries == {Name, User}

SessionsInit ==
    /\ memory = MemoryEngine_new(default_episodic_window, TRUE)
    /\ journal = [turns |-> <<>>, last |-> NoAssemble]
    /\ route_last = NoRoute
    /\ router = SessionRouter_new
    /\ now = 1
    /\ overflow_checks = FALSE
    /\ counter = TokenCounter_new(Budget(NoLimit, NoLimit, NoLimit), Times[now])
    /\ meter_last = NoCall
    /\ ncalls = 0
    /\ GatewayIdle
    /\ env = NoEnv

\* The end of a turn of a session: memory.process_response(..).
SessionsTurn ==
    /\ Len(journal.turns) < MaxTurns
    /\ \E session_key \in Sessions, object \in Objects :
         /\ memory' = process_turn(memory, session_key,
                                   Message_text("user", MyNameIs \o object),
                                   Message_text("assistant", Okay),
                                   Len(journal.turns) + 1, Times[now])
         /\ journal' = [journal EXCEPT !.turns = Append(@, Turn(session_key, object))]
    /\ UNCHANGED <<meter_vars, router, route_last, conn, runner, relay, chan, store,
                   session_locks, hist, last_mut, env>>

\* The start of a turn of a session: memory.assemble_context(..).
SessionsAssemble ==
    /\ \E session_key \in Sessions, query \in TurnQueries :
         LET out == assemble_context(memory, session_key, <<"d", "e", "f", "a", "u", "l", "t">>,
                                     query, CHOOSE w \in Walks : TRUE, <<>>)
         IN  /\ memory' = out.memory
             /\ journal' = [journal EXCEPT
                              !.last = [op |-> "assemble", n |-> 1,
                                        session_key |-> session_key, query |-> query,
                                        context |-> out.context]]
    /\ UNCHANGED <<meter_vars, router, route_last, conn, runner, relay, chan, store,
                   session_locks, hist, last_mut, env>>

SessionsNext == SessionsTurn \/ SessionsAssemble

SpecSessions == SessionsInit /\ [][SessionsNext]_vars

\* The memory of an engine that has served only the turns of one session
\* among turns[1..n].
RECURSIVE OwnMemory(_, _, _)
OwnMemory(turns, n, session_key) ==
    IF n = 0 THEN MemoryEngine_new(default_episodic_window, TRUE)
    ELSE IF turns[n].session_key # session_key THEN OwnMemory(turns, n - 1, session_key)
    ELSE process_turn(OwnMemory(turns, n - 1, session_key), session_key,
                      Message_text("user", MyNameIs \o turns[n].object),
                      Message_text("assistant", Okay), n, Times[now])
\* The session whose turn made the entity with the id.
LearnedIn(id) == journal.turns[id].session_key

\* C36: the context assembled for a session is the one an engine would
\* assemble that had served that session's turns only (no fact of another
\* session in its Known-facts message), and an entity is superseded only
\* by an entity learned in the same session.
C36_SessionsIsolated ==
    /\ journal.last.op = "assemble" =>
          journal.last.context
             = assemble_context(OwnMemory(journal.turns, Len(journal.turns),
                                          journal.last.session_key),
                                journal.last.session_key, <<"d", "e", "f", "a", "u", "l", "t">>,
                                journal.last.query, CHOOSE w \in Walks : TRUE, <<>>).context
    /\ \A s \in Subjects : \A i \in 1..Len(memory.semantic.entities[s]) :
          LET e == memory.semantic.entities[s][i]
          IN  e.superseded_by # <<>> => LearnedIn(e.superseded_by[1]) = LearnedIn(e.id)

\* C37: every session's message_count is the number of messages in its log.
C37_CountIsLogLength ==
    \A key \in Sessions :
       store[key] # NoSession => store[key].message_count = Len(store[key].messages)

(***************************************************************************)
(* SpecLockOrder: the shared locks of AppState as the tasks of one         *)
(* chat.send, one webhook and one status request take them, all for the    *)
(* same session.  A task is a program of lock operations in the order of   *)
(* its code; sends and receives on channels are steps that complete.       *)
(* tokio's Mutex and RwLock: a write or a mutex lock waits for every       *)
(* holder, a read for a writer (no handler takes plugins in write mode).   *)
(***************************************************************************)
Acq(lock, mode) == [op |-> "acquire", lock |-> lock, mode |-> mode]
Rel(lock) == [op |-> "release", lock |-> lock, mode |-> "none"]
SpawnTask(task) == [op |-> "spawn", lock |-> task, mode |-> "none"]
\* Wait for what the task sends once it has run n of its steps.
RecvFrom(task, n) == [op |-> "recv", lock |-> task, mode |-> n]
SendStep == [op |-> "send", lock |-> "", mode |-> "none"]

\* AppState::session_lock: the map under its RwLock, read then write.
session_lock_steps ==
    << Acq("session_locks", "read"), Rel("session_locks"),
       Acq("session_locks", "write"), Rel("session_locks") >>

\* An on-done branch that takes the memory before the store.
on_done_MemoryFirst ==
    << Acq("memory", "write"), Acq("store", "write"), Rel("store"), Rel("memory") >>
\* handle_connection on Done: store.write, then memory.write, both dropped
\* at the end of the block.
on_done ==
    << Acq("store", "write"), Acq("memory", "write"), Rel("memory"), Rel("store") >>

\* The runner task of chat.send: the session lock, run_with_tools (one tool
\* iteration: plugins.read held over the sends of the results), Done, the
\* message_count bump, then the guard is dropped.
RunnerProgram ==
    << Acq("session", "lock"),
       SendStep,
       Acq("plugins", "read"), SendStep, Rel("plugins"),
       SendStep,
       Acq("store", "write"), Rel("store"),
       Rel("session") >>
\* The steps the runner has run when its Done is sent: up to its last send.
RunnerSentDone ==
    CHOOSE i \in 1..Len(RunnerProgram) :
       /\ RunnerProgram[i] = SendStep
       /\ \A j \in (i + 1)..Len(RunnerProgram) : RunnerProgram[j] # SendStep

\* The metering relay: the counter mutex around record_usage, then the send.
RelayProgram ==
    << RecvFrom("runner", 2), Acq("counter", "lock"), Rel("counter"), SendStep >>

\* handle_chat_send on the connection task, then the streaming loop of
\* handle_connection up to Done.
ChatProgram ==
    << Acq("router", "write"), Rel("router"),
       Acq("store", "write"), Rel("store"),
       Acq("memory", "write"), Rel("memory"),
       Acq("counter", "lock"), Rel("counter"),
       Acq("plugins", "read"), Rel("plugins") >>
    \o session_lock_steps
    \o << SpawnTask("relay"), SpawnTask("runner"), RecvFrom("runner", RunnerSentDone) >>
    \o on_done

\* The agent task of the webhook: run_with_tools without a session lock.
AgentProgram ==
    << SendStep, Acq("plugins", "read"), SendStep, Rel("plugins"), SendStep >>
AgentSentDone ==
    CHOOSE i \in 1..Len(AgentProgram) :
       /\ AgentProgram[i] = SendStep
       /\ \A j \in (i + 1)..Len(AgentProgram) : AgentProgram[j] # SendStep

\* webhook_handler
WebhookProgram ==
    << Acq("plugins", "read"), Rel("plugins"),
       Acq("plugins", "read"), Rel("plugins"),
       Acq("router", "write"), Rel("router") >>
    \o session_lock_steps
    \o << Acq("session", "lock"),
          Acq("store", "write"), Rel("store"),
          Acq("memory", "write"), Rel("memory"),
          Acq("plugins", "read"), Rel("plugins"),
          SpawnTask("agent"), RecvFrom("agent", AgentSentDone),
          Acq("store", "write"), Acq("memory", "write"), Rel("memory"), Rel("store"),
          Acq("plugins", "read"), Rel("plugins"),
          Acq("plugins", "read"), Rel("plugins"),
          Rel("session") >>

\* handle_rpc "status": router.read, and plugins.read inside the response.
StatusProgram ==
    << Acq("router", "read"), Acq("plugins", "read"), Rel("plugins"), Rel("router") >>

LockOrderTasks == {"chat", "runner", "relay", "webhook", "agent", "status"}
Program(t) ==
    CASE t = "chat" -> ChatProgram
      [] t = "runner" -> RunnerProgram
      [] t = "relay" -> RelayProgram
      [] t = "webhook" -> WebhookProgram
      [] t = "agent" -> AgentProgram
      [] t = "status" -> StatusProgram
SharedLocks == {"session", "store", "memory", "router", "plugins", "session_locks", "counter"}

LockOrderInit ==
    /\ journal = [done |-> [t \in LockOrderTasks |-> 0],
                  spawned |-> [t \in LockOrderTasks |-> t \in {"chat", "webhook", "status"}],
                  held |-> [t \in LockOrderTasks |-> [l \in SharedLocks |-> "none"]]]
    /\ route_last = NoRoute
    /\ router = SessionRouter_new
    /\ now = 1
    /\ overflow_checks = FALSE
    /\ counter = TokenCounter_new(Budget(NoLimit, NoLimit, NoLimit), Times[now])
    /\ meter_last = NoCall
    /\ ncalls = 0
    /\ GatewayIdle
    /\ memory = MemoryEngine_new(default_episodic_window, TRUE)
    /\ env = NoEnv

\* The task has steps left, and the step it is at.
Unfinished(t) == journal.spawned[t] /\ journal.done[t] < Len(Program(t))
StepOf(t) == Program(t)[journal.done[t] + 1]
\* The lock can be granted in the mode to task t.
Grantable(t, lock, mode) ==
    \A u \in LockOrderTasks \ {t} :
       IF mode = "read" THEN journal.held[u][lock] \in {"none", "read"}
       ELSE journal.held[u][lock] = "none"
Advance(t) == [journal EXCEPT !.done[t] = @ + 1]

\* .read().await, .write().await or .lock() returns the guard.
LockAcquire(t) ==
    /\ Unfinished(t)
    /\ StepOf(t).op = "acquire"
    /\ Grantable(t, StepOf(t).lock, StepOf(t).mode)
    /\ journal' = [Advance(t) EXCEPT !.held[t][StepOf(t).lock] = StepOf(t).mode]
    /\ UNCHANGED <<meter_vars, gateway_vars, router, route_last>>

\* The guard is dropped.
LockRelease(t) ==
    /\ Unfinished(t)
    /\ StepOf(t).op = "release"
    /\ journal' = [Advance(t) EXCEPT !.held[t][StepOf(t).lock] = "none"]
    /\ UNCHANGED <<meter_vars, gateway_vars, router, route_last>>

\* tokio::spawn
TaskSpawn(t) ==
    /\ Unfinished(t)
    /\ StepOf(t).op = "spawn"
    /\ journal' = [Advance(t) EXCEPT !.spawned[StepOf(t).lock] = TRUE]
    /\ UNCHANGED <<meter_vars, gateway_vars, router, route_last>>

\* tx.send(..).await on a channel whose receiver drains it.
TaskSend(t) ==
    /\ Unfinished(t)
    /\ StepOf(t).op = "send"
    /\ journal' = Advance(t)
    /\ UNCHANGED <<meter_vars, gateway_vars, router, route_last>>

\* rx.recv().await yields what the other task has sent.
TaskRecv(t) ==
    /\ Unfinished(t)
    /\ StepOf(t).op = "recv"
    /\ journal.done[StepOf(t).lock] >= StepOf(t).mode
    /\ journal' = Advance(t)
    /\ UNCHANGED <<meter_vars, gateway_vars, router, route_last>>

LockOrderNext ==
    \E t \in LockOrderTasks :
       \/ LockAcquire(t)
       \/ LockRelease(t)
       \/ TaskSpawn(t)
       \/ TaskSend(t)
       \/ TaskRecv(t)

SpecLockOrder == LockOrderInit /\ [][LockOrderNext]_vars

\* The pairs (held, acquired) the order allows: session, store, memory;
\* router, plugins; and plugins under the session lock.
LockOrder ==
    { <<"session", "store">>, <<"session", "memory">>, <<"store", "memory">>,
      <<"router", "plugins">>, <<"session", "plugins">> }
HeldBy(t) == {l \in SharedLocks : journal.held[t][l] # "none"}
\* Task t is at an acquire that cannot be granted now.
Blocked(t) ==
    /\ Unfinished(t)
    /\ StepOf(t).op = "acquire"
    /\ ~Grantable(t, StepOf(t).lock, StepOf(t).mode)
\* Task t is at a receive whose sender has not sent yet.
Receiving(t) ==
    /\ Unfinished(t)
    /\ StepOf(t).op = "recv"
    /\ journal.done[StepOf(t).lock] < StepOf(t).mode
\* A nonempty set of tasks each blocked on a lock that only tasks of the set
\* hold, or waiting for a task of the set.
CyclicWait(W) ==
    /\ W # {}
    /\ \A t \in W :
          \/ /\ Blocked(t)
             /\ \A u \in LockOrderTasks \ {t} :
                   journal.held[u][StepOf(t).lock] # "none" => u \in W
          \/ /\ Receiving(t)
             /\ StepOf(t).lock \in W

RECURSIVE SessionsTotal(_, _)
SessionsTotal(c, keys) ==
    IF keys = {} THEN U64(0)
    ELSE LET k == CHOOSE x \in keys : TRUE
         IN  WrappingAdd(SessionUsed(c, k), SessionsTotal(c, keys \ {k}))

\* C39: daily_used <= monthly_used <= the sum of the session totals, and
\* the month never starts after the day (a rollover of the month is a
\* rollover of the day).
C39_DailyWithinMonthlyWithinSessions ==
    /\ [](/\ Le(counter.daily_used, counter.monthly_used)
          /\ Le(counter.monthly_used, SessionsTotal(counter, Sessions))
          /\ ~TimeGt(counter.monthly_start, counter.daily_start))
    /\ [][ counter'.monthly_start # counter.monthly_start =>
              /\ counter'.daily_start # counter.daily_start
              /\ counter'.daily_used = counter'.monthly_used ]_vars

\* C39 witness: usage of two sessions recorded in two months; the month and
\* the day hold the later usage, the sessions hold all of it.
C39_Witness ==
    /\ counter.monthly_start # TokenCounter_new(Budget(NoLimit, NoLimit, NoLimit),
                                                Times[1]).monthly_start
    /\ counter.daily_used # U64(0)
    /\ counter.daily_used = counter.monthly_used
    /\ SessionUsed(counter, "s1") # U64(0) /\ SessionUsed(counter, "s2") # U64(0)
    /\ Lt(counter.monthly_used, SessionsTotal(counter, Sessions))

(***************************************************************************)
(* SpecKeys: resolve asked for routing tuples whose fields may hold the    *)
(* separator ':' or the word "main".                                       *)
(***************************************************************************)
MaxKeyResolves == 2

Main == <<"m", "a", "i", "n">>
SeparatorRequests ==
    [channel : {<<"t">>, <<"t", ":", "a">>},
     account : {<<"a">>, <<"a", ":", "b">>, <<"b">>},
     peer : {None, Some(Main), Some(<<"c">>), Some(<<"b", ":", "c">>)},
     guild : {None}, team : {None}]

KeysInit ==
    /\ router = SessionRouter_new
    /\ journal = <<>>
    /\ route_last = NoRoute
    /\ now = 1
    /\ overflow_checks = FALSE
    /\ counter = TokenCounter_new(Budget(NoLimit, NoLimit, NoLimit), Times[now])
    /\ meter_last = NoCall
    /\ ncalls = 0
    /\ GatewayIdle
    /\ memory = MemoryEngine_new(default_episodic_window, TRUE)
    /\ env = NoEnv

\* A caller invokes resolve.
KeysResolve ==
    /\ Len(journal) < MaxKeyResolves
    /\ \E q \in SeparatorRequests :
         LET out == resolve(router, q)
         IN  /\ router' = out.router
             /\ journal' = Append(journal, [q |-> q, route |-> out.route])
    /\ UNCHANGED <<meter_vars, gateway_vars, route_last>>

KeysNext == KeysResolve

SpecKeys == KeysInit /\ [][KeysNext]_vars

\* The routing tuple of a resolve call.
RoutingTuple(call) == <<call.route.agent_id, call.q.channel, call.q.account, call.q.peer>>

\* C40: two resolve calls with different (agent_id, channel, account, peer)
\* tuples return different session keys.
C40_KeysIdentifyTuples ==
    \A i \in 1..Len(journal), j \in 1..Len(journal) :
       RoutingTuple(journal[i]) # RoutingTuple(journal[j]) =>
          journal[i].route.session_key # journal[j].route.session_key

====
